---- MODULE Spec2Model ----
(***************************************************************************)
(* A model of upstash/ratelimit-py: the three rate-limiting algorithms     *)
(* (Fixed Window, Sliding Window, Token Bucket) as the scripts they run    *)
(* atomically on the store, and the blocking wait layered on top of them.  *)
(*                                                                         *)
(* The repository holds two generations of the code and both are modelled: *)
(*   - upstash_ratelimit/limiter.py with asyncio/ratelimit.py              *)
(*     (FixedWindow, SlidingWindow, TokenBucket, Ratelimit);               *)
(*   - upstash_ratelimit/algorithms/*_core.py with sync/*.py and           *)
(*     sync/sync_blocker.py (FixedWindowCore, SlidingWindowCore,           *)
(*     TokenBucketCore, SyncBlocker).                                      *)
(*                                                                         *)
(* Time.  The clock counts ticks; one millisecond is TicksPerMs ticks, so  *)
(* that the truncation of int(time.time() * 1000) and of a Lua number      *)
(* returned as a Redis integer is visible.  A float number of seconds      *)
(* (time.time(), Response.reset) and a number of nanoseconds (time_ns())   *)
(* are both represented by the number of ticks they span; a float number   *)
(* of milliseconds (time_ns() / 1000000) likewise.  Integer milliseconds   *)
(* are kept as integers.                                                   *)
(***************************************************************************)
EXTENDS Integers, Sequences, FiniteSets, TLC

VARIABLES
    clock,      \* wall clock, in ticks (shared by the clients and the store)
    impl,       \* the limiter this behaviour was constructed with
    counters,   \* store: string keys of the window algorithms, key -> [n, exp]
    buckets,    \* store: hash keys of the token bucket, key -> [refilled_at, tokens, exp]
    resp,       \* the Response of the latest decision
    last,       \* the latest public call: which operation, for whom, at what cost
    calls,      \* per identifier: the window of its latest limit call and the calls charged to it
    bur,        \* the caller inside block_until_ready: its locals and where it is suspended
    answer,     \* what a remaining / reset query returned at this instant, since the latest decision
    made,       \* the construction of the limiter: its arguments, its outcome, its first use
    conv,       \* one call of a unit converter: its arguments and its outcome
    flight,     \* concurrent callers of limit: the request each has in flight, and its outcome
    seen,       \* per identifier: when it was first seen and how many of its calls were allowed
    twin        \* the same requests on a store that never expires a key: its buckets, its Response

vars == <<clock, impl, counters, buckets, resp, last, calls, bur, answer, made, conv, flight, seen, twin>>

-----------------------------------------------------------------------------
(* Bounds of the model *)

TicksPerMs == 2
MaxClock == 8
MaxCount == 4
MaxCalls == 3
MaxDebt == 2
MaxCost == 2
MaxTimeout == 3
MaxOvershoot == 1
MaxLag == 1
MaxConfig == 2
MaxValue == 4
MaxPairClock == 0
MaxStart == 4
MaxProcs == 3

(* The configuration the limiters are constructed with *)
MaxRequests == 2
Window == 2
MaxTokens == 3
RefillRate == 2
Interval == 2

Ids == {"u1"}
Costs == 1..MaxCost

NewImpls == {"FixedWindow", "SlidingWindow", "TokenBucket"}
CoreImpls == {"FixedWindowCore", "SlidingWindowCore", "TokenBucketCore"}
Impls == NewImpls \cup CoreImpls

Min(a, b) == IF a <= b THEN a ELSE b
Max(a, b) == IF a >= b THEN a ELSE b
\* math.ceil(a / b) for b > 0
CeilDiv(a, b) == -((-a) \div b)

-----------------------------------------------------------------------------
(* Clock readings and unit conversion *)

\* utils.now_ms: int(time.time() * 1_000)
now_ms == clock \div TicksPerMs
\* utils.now_s: time.time(), a float of seconds
now_s == clock
\* utils.ms_to_s: value / 1_000, a float of seconds
ms_to_s(value) == value * TicksPerMs
\* time.time_ns(), nanoseconds
time_ns == clock
\* RateLimitAlgorithm.current_time_in_milliseconds: time_ns() / 1000000, a float
current_time_in_milliseconds == clock
\* an integer number of milliseconds as the float it is compared with
MsFloat(ms) == ms * TicksPerMs
\* a Lua number returned to the client: Redis truncates it to an integer
LuaToInteger(f) == f \div TicksPerMs

\* the hour taken for a minute
to_ms_hour_as_minute(value, unit) ==
    CASE unit = "ms" -> value
      [] unit = "s" -> value * 1000
      [] unit = "m" -> value * 60 * 1000
      [] unit = "h" -> value * 60 * 1000
      [] unit = "d" -> value * 24 * 60 * 60 * 1000

\* utils.to_ms, its else branch: raise ValueError("Unexpected unit")
to_ms_raises(unit) == unit \notin {"ms", "s", "m", "h", "d"}

\* utils/time.to_milliseconds, its else branch: raise Exception("Unsupported unit.")
to_milliseconds_raises(unit) == unit \notin {"s", "m", "h", "d"}

\* utils/time.to_milliseconds: the legacy converter has no arm for "ms"
to_milliseconds(window, unit) ==
    CASE unit = "s" -> window * 1000
      [] unit = "m" -> window * 1000 * 60
      [] unit = "h" -> window * 1000 * 60 * 60
      [] unit = "d" -> window * 1000 * 60 * 60 * 24

\* utils.to_ms
to_ms(value, unit) ==
    CASE unit = "ms" -> value
      [] unit = "s" -> value * 1000
      [] unit = "m" -> value * 60 * 1000
      [] unit = "h" -> value * 60 * 60 * 1000
      [] unit = "d" -> value * 24 * 60 * 60 * 1000

\* FixedWindow.__init__ / SlidingWindow.__init__: self._window
window_ms == to_ms(Window, "ms")
\* TokenBucket.__init__: self._interval
interval_ms == to_ms(Interval, "ms")

-----------------------------------------------------------------------------
(* The store: Redis string keys with an optional time to live *)

NoExpiry == -1

Live(rec, t) == rec.exp = NoExpiry \/ rec.exp > t
\* what the store's expiry leaves of a key space at time t
Purge(c, t) == [k \in {x \in DOMAIN c : Live(c[x], t)} |-> c[k]]

EXISTS(c, key) == key \in DOMAIN c /\ Live(c[key], clock)
\* GET: the count, or -1 standing for nil / false
NIL == -1
GET(c, key) == IF EXISTS(c, key) THEN c[key].n ELSE NIL
INCRBY(c, key, by) ==
    IF EXISTS(c, key)
    THEN [c EXCEPT ![key].n = @ + by]
    ELSE [k \in DOMAIN c \cup {key} |->
            IF k = key THEN [n |-> by, exp |-> NoExpiry] ELSE c[k]]
PEXPIRE(c, key, ms) == [c EXCEPT ![key].exp = clock + ms * TicksPerMs]

-----------------------------------------------------------------------------
(* Fixed Window *)

\* FixedWindow.SCRIPT (limiter.py)
FixedWindow_SCRIPT_incr(c, key, window, increment_by) ==
    LET c1 == INCRBY(c, key, 1)
        r == c1[key].n
    IN IF r = 1
       THEN [store |-> PEXPIRE(c1, key, window), ret |-> r]
       ELSE [store |-> c1, ret |-> r]

\* the expiry set again by every call
FixedWindow_SCRIPT_refresh(c, key, window, increment_by) ==
    LET c1 == INCRBY(c, key, increment_by)
        r == c1[key].n
    IN [store |-> PEXPIRE(c1, key, window), ret |-> r]

FixedWindow_SCRIPT(c, key, window, increment_by) ==
    LET c1 == INCRBY(c, key, increment_by)
        r == c1[key].n
    IN IF r = increment_by
       THEN [store |-> PEXPIRE(c1, key, window), ret |-> r]
       ELSE [store |-> c1, ret |-> r]

\* FixedWindow._limit with the quota test off by one: num_requests < max_requests
FixedWindow_limit_strict(c, identifier, rate) ==
    LET curr_window == now_ms \div window_ms
        key == <<identifier, curr_window>>
        ev == FixedWindow_SCRIPT(c, key, window_ms, rate)
        num_requests == ev.ret
    IN [store |-> ev.store,
        response |-> [allowed |-> num_requests < MaxRequests,
                      limit |-> MaxRequests,
                      remaining |-> Max(0, MaxRequests - num_requests),
                      reset |-> ms_to_s((curr_window + 1) * window_ms)]]

\* FixedWindow._limit without the max(0, ...) around remaining
FixedWindow_limit_unclamped(c, identifier, rate) ==
    LET curr_window == now_ms \div window_ms
        key == <<identifier, curr_window>>
        ev == FixedWindow_SCRIPT(c, key, window_ms, rate)
        num_requests == ev.ret
    IN [store |-> ev.store,
        response |-> [allowed |-> num_requests <= MaxRequests,
                      limit |-> MaxRequests,
                      remaining |-> MaxRequests - num_requests,
                      reset |-> ms_to_s((curr_window + 1) * window_ms)]]

\* FixedWindow._limit reporting the start of the current window as reset
FixedWindow_limit_reset_start(c, identifier, rate) ==
    LET curr_window == now_ms \div window_ms
        key == <<identifier, curr_window>>
        ev == FixedWindow_SCRIPT(c, key, window_ms, rate)
        num_requests == ev.ret
    IN [store |-> ev.store,
        response |-> [allowed |-> num_requests <= MaxRequests,
                      limit |-> MaxRequests,
                      remaining |-> Max(0, MaxRequests - num_requests),
                      reset |-> ms_to_s(curr_window * window_ms)]]

\* the key names the window alone, not the identifier
FixedWindow_limit_shared_key(c, identifier, rate) ==
    LET curr_window == now_ms \div window_ms
        key == <<"", curr_window>>
        ev == FixedWindow_SCRIPT(c, key, window_ms, rate)
        num_requests == ev.ret
    IN [store |-> ev.store,
        response |-> [allowed |-> num_requests <= MaxRequests,
                      limit |-> MaxRequests,
                      remaining |-> Max(0, MaxRequests - num_requests),
                      reset |-> ms_to_s((curr_window + 1) * window_ms)]]

\* FixedWindow._limit (limiter.py)
FixedWindow_limit(c, identifier, rate) ==
    LET curr_window == now_ms \div window_ms
        key == <<identifier, curr_window>>
        ev == FixedWindow_SCRIPT(c, key, window_ms, rate)
        num_requests == ev.ret
    IN [store |-> ev.store,
        response |-> [allowed |-> num_requests <= MaxRequests,
                      limit |-> MaxRequests,
                      remaining |-> Max(0, MaxRequests - num_requests),
                      reset |-> ms_to_s((curr_window + 1) * window_ms)]]

\* FixedWindowCore.script (algorithms/fixed_window_core.py)
FixedWindowCore_script(c, key, window) ==
    LET c1 == INCRBY(c, key, 1)
        current_requests == c1[key].n
    IN IF current_requests = 1
       THEN [store |-> PEXPIRE(c1, key, window), ret |-> current_requests]
       ELSE [store |-> c1, ret |-> current_requests]

\* FixedWindowCore.current_window: floor(current_time_in_milliseconds / window)
FixedWindowCore_current_window == current_time_in_milliseconds \div MsFloat(window_ms)

\* FixedWindowCore.limit (algorithms/fixed_window_core.py)
\* the request that reaches the limit is denied
FixedWindowCore_limit_strict(current_requests) ==
    [allowed |-> current_requests < MaxRequests,
     limit |-> MaxRequests,
     remaining |-> MaxRequests - current_requests,
     reset |-> (time_ns \div MsFloat(window_ms)) * window_ms + window_ms]

FixedWindowCore_limit(current_requests) ==
    [allowed |-> current_requests <= MaxRequests,
     limit |-> MaxRequests,
     remaining |-> MaxRequests - current_requests,
     reset |-> (time_ns \div MsFloat(window_ms)) * window_ms + window_ms]

\* FixedWindow.limit (sync/fixed_window.py), with find_key
SyncFixedWindow_limit(c, identifier) ==
    LET key == <<identifier, FixedWindowCore_current_window>>
        ev == FixedWindowCore_script(c, key, window_ms)
    IN [store |-> ev.store, response |-> FixedWindowCore_limit(ev.ret)]

-----------------------------------------------------------------------------
(* Sliding Window *)

\* the "+ 1000" of the sliding window's PEXPIRE, in milliseconds
SlidingExpiryMargin == 1000

\* SlidingWindow.SCRIPT (limiter.py); the Lua floats are exact rationals here
\* the counter lives one window only
SlidingWindow_SCRIPT_short(c, current_key, previous_key, tokens, now, window, increment_by) ==
    LET got_current == GET(c, current_key)
        requests_in_current_window == IF got_current = NIL THEN 0 ELSE got_current
        got_previous == GET(c, previous_key)
        stored_previous == IF got_previous = NIL THEN 0 ELSE got_previous
        requests_in_previous_window ==
            (stored_previous * (window - (now % window))) \div window
    IN IF requests_in_previous_window + requests_in_current_window >= tokens
       THEN [store |-> c, ret |-> -1]
       ELSE LET c1 == INCRBY(c, current_key, increment_by)
                new_value == c1[current_key].n
                c2 == IF new_value = increment_by
                      THEN PEXPIRE(c1, current_key, window)
                      ELSE c1
            IN [store |-> c2,
                ret |-> tokens - (new_value + requests_in_previous_window)]

SlidingWindow_SCRIPT(c, current_key, previous_key, tokens, now, window, increment_by) ==
    LET got_current == GET(c, current_key)
        requests_in_current_window == IF got_current = NIL THEN 0 ELSE got_current
        got_previous == GET(c, previous_key)
        stored_previous == IF got_previous = NIL THEN 0 ELSE got_previous
        \* math.floor((1 - (now % window) / window) * requests_in_previous_window)
        requests_in_previous_window ==
            (stored_previous * (window - (now % window))) \div window
    IN IF requests_in_previous_window + requests_in_current_window >= tokens
       THEN [store |-> c, ret |-> -1]
       ELSE LET c1 == INCRBY(c, current_key, increment_by)
                new_value == c1[current_key].n
                c2 == IF new_value = increment_by
                      THEN PEXPIRE(c1, current_key, window * 2 + SlidingExpiryMargin)
                      ELSE c1
            IN [store |-> c2,
                ret |-> tokens - (new_value + requests_in_previous_window)]

\* SlidingWindow._limit (limiter.py)
SlidingWindow_limit(c, identifier, rate) ==
    LET now == now_ms
        curr_window == now \div window_ms
        key == <<identifier, curr_window>>
        prev_window == curr_window - 1
        prev_key == <<identifier, prev_window>>
        ev == SlidingWindow_SCRIPT(c, key, prev_key, MaxRequests, now, window_ms, rate)
        remaining == ev.ret
    IN [store |-> ev.store,
        response |-> [allowed |-> remaining >= 0,
                      limit |-> MaxRequests,
                      remaining |-> Max(0, remaining),
                      reset |-> ms_to_s((curr_window + 1) * window_ms)]]

\* SlidingWindowCore.script (algorithms/sliding_window_core.py); now is a float of
\* milliseconds, and estimated >= max_number_of_requests is compared exactly
SlidingWindowCore_script(c, current_key, previous_key, max_number_of_requests, now, window) ==
    LET got_current == GET(c, current_key)
        requests_in_current_window == IF got_current = NIL THEN -1 ELSE got_current
        got_previous == GET(c, previous_key)
        requests_in_previous_window == IF got_previous = NIL THEN 0 ELSE got_previous
        \* estimated * window, with window and now % window as floats
        estimated_times_window ==
            requests_in_previous_window * (MsFloat(window) - (now % MsFloat(window)))
            + requests_in_current_window * MsFloat(window)
    IN IF estimated_times_window >= max_number_of_requests * MsFloat(window)
       THEN [store |-> c, ret |-> -1]
       ELSE LET c1 == INCRBY(c, current_key, 1)
                new_current_requests == c1[current_key].n
                c2 == IF new_current_requests = 1
                      THEN PEXPIRE(c1, current_key, window * 2 + SlidingExpiryMargin)
                      ELSE c1
            IN [store |-> c2, ret |-> max_number_of_requests - new_current_requests]

\* SlidingWindowCore.current_window
SlidingWindowCore_current_window == current_time_in_milliseconds \div MsFloat(window_ms)
\* SlidingWindowCore.previous_window: self.current_window - self.window
SlidingWindowCore_previous_window == SlidingWindowCore_current_window - window_ms

\* SlidingWindowCore.limit (algorithms/sliding_window_core.py)
SlidingWindowCore_limit(remaining_requests) ==
    [allowed |-> remaining_requests >= 0,
     limit |-> MaxRequests,
     remaining |-> remaining_requests,
     reset |-> (time_ns \div MsFloat(window_ms)) * window_ms + window_ms]

\* SlidingWindow.limit (sync/sliding_window.py), with get_current_key / get_previous_key
SyncSlidingWindow_limit(c, identifier) ==
    LET ev == SlidingWindowCore_script(c,
                  <<identifier, SlidingWindowCore_current_window>>,
                  <<identifier, SlidingWindowCore_previous_window>>,
                  MaxRequests, current_time_in_milliseconds, window_ms)
    IN [store |-> ev.store, response |-> SlidingWindowCore_limit(ev.ret)]

-----------------------------------------------------------------------------
(* Token Bucket.  A bucket is [refilled_at, tokens, exp]; the hash field the  *)
(* legacy script calls updated_at is refilled_at here.                        *)

HEXISTS(b, key) == key \in DOMAIN b /\ Live(b[key], clock)
HSET(b, key, refilled_at, tokens) ==
    [k \in DOMAIN b \cup {key} |->
        IF k = key
        THEN [refilled_at |-> refilled_at, tokens |-> tokens,
              exp |-> IF HEXISTS(b, key) THEN b[key].exp ELSE NoExpiry]
        ELSE b[k]]

\* TokenBucket.SCRIPT (limiter.py)
\* the refill timestamp set to the time of the request that finds a refill due
TokenBucket_SCRIPT_snap(b, key, max_tokens, interval, refill_rate, now, increment_by) ==
    LET exists == HEXISTS(b, key)
        refilled_at0 == IF exists THEN b[key].refilled_at ELSE now
        tokens0 == IF exists THEN b[key].tokens ELSE max_tokens
        due == now >= refilled_at0 + interval
        num_refills == (now - refilled_at0) \div interval
        tokens == IF due THEN Min(max_tokens, tokens0 + num_refills * refill_rate)
                  ELSE tokens0
        refilled_at == IF due THEN now ELSE refilled_at0
        remaining == tokens - increment_by
        expire_at == CeilDiv(max_tokens - remaining, refill_rate) * interval
    IN IF tokens = 0
       THEN [store |-> b, ret |-> <<-1, refilled_at + interval>>]
       ELSE [store |-> PEXPIRE(HSET(b, key, refilled_at, remaining), key, expire_at),
             ret |-> <<remaining, refilled_at + interval>>]

\* a due refill fills the bucket, whatever the number of intervals and the rate
TokenBucket_SCRIPT_fill(b, key, max_tokens, interval, refill_rate, now, increment_by) ==
    LET exists == HEXISTS(b, key)
        refilled_at0 == IF exists THEN b[key].refilled_at ELSE now
        tokens0 == IF exists THEN b[key].tokens ELSE max_tokens
        due == now >= refilled_at0 + interval
        num_refills == (now - refilled_at0) \div interval
        tokens == IF due THEN max_tokens ELSE tokens0
        refilled_at == IF due THEN refilled_at0 + num_refills * interval
                       ELSE refilled_at0
        remaining == tokens - increment_by
        expire_at == CeilDiv(max_tokens - remaining, refill_rate) * interval
    IN IF tokens = 0
       THEN [store |-> b, ret |-> <<-1, refilled_at + interval>>]
       ELSE [store |-> PEXPIRE(HSET(b, key, refilled_at, remaining), key, expire_at),
             ret |-> <<remaining, refilled_at + interval>>]

TokenBucket_SCRIPT(b, key, max_tokens, interval, refill_rate, now, increment_by) ==
    LET exists == HEXISTS(b, key)
        refilled_at0 == IF exists THEN b[key].refilled_at ELSE now
        tokens0 == IF exists THEN b[key].tokens ELSE max_tokens
        due == now >= refilled_at0 + interval
        num_refills == (now - refilled_at0) \div interval
        tokens == IF due THEN Min(max_tokens, tokens0 + num_refills * refill_rate)
                  ELSE tokens0
        refilled_at == IF due THEN refilled_at0 + num_refills * interval
                       ELSE refilled_at0
        remaining == tokens - increment_by
        expire_at == CeilDiv(max_tokens - remaining, refill_rate) * interval
    IN IF tokens = 0
       THEN [store |-> b, ret |-> <<-1, refilled_at + interval>>]
       ELSE [store |-> PEXPIRE(HSET(b, key, refilled_at, remaining), key, expire_at),
             ret |-> <<remaining, refilled_at + interval>>]

\* TokenBucket._limit (limiter.py)
TokenBucket_limit(b, identifier, rate) ==
    LET ev == TokenBucket_SCRIPT(b, identifier, MaxTokens, interval_ms, RefillRate,
                                 now_ms, rate)
        remaining == ev.ret[1]
        refill_at == ev.ret[2]
    IN [store |-> ev.store,
        response |-> [allowed |-> remaining >= 0,
                      limit |-> MaxTokens,
                      remaining |-> Max(0, remaining),
                      reset |-> ms_to_s(refill_at)]]

\* TokenBucketCore.script (algorithms/token_bucket_core.py); now and updated_at are
\* floats of milliseconds, and the returned pair is truncated to integers
TokenBucketCore_script(b, key, max_number_of_tokens, interval, refill_rate, now) ==
    IF ~HEXISTS(b, key)
    THEN LET remaining == max_number_of_tokens - 1
         IN [store |-> HSET(b, key, now, remaining),
             ret |-> <<remaining, LuaToInteger(now + MsFloat(interval))>>]
    ELSE LET updated_at == b[key].refilled_at
             tokens == b[key].tokens
         IN IF now >= updated_at + MsFloat(interval)
            THEN LET number_of_refills == (now - updated_at) \div MsFloat(interval)
                     remaining ==
                        IF tokens <= 0
                        THEN Min(max_number_of_tokens, number_of_refills * refill_rate) - 1
                        ELSE Min(max_number_of_tokens,
                                 tokens + number_of_refills * refill_rate) - 1
                     last_refill == updated_at + number_of_refills * MsFloat(interval)
                 IN [store |-> HSET(b, key, last_refill, remaining),
                     ret |-> <<remaining, LuaToInteger(last_refill + MsFloat(interval))>>]
            ELSE LET remaining == tokens - 1
                 IN [store |-> HSET(b, key, updated_at, remaining),
                     ret |-> <<remaining, LuaToInteger(updated_at + MsFloat(interval))>>]

\* TokenBucketCore.limit (algorithms/token_bucket_core.py)
TokenBucketCore_limit(remaining_tokens, next_refill_at) ==
    [allowed |-> remaining_tokens >= 0,
     limit |-> MaxTokens,
     remaining |-> remaining_tokens,
     reset |-> next_refill_at]

\* TokenBucket.limit (sync/token_bucket.py), with get_key
SyncTokenBucket_limit(b, identifier) ==
    LET ev == TokenBucketCore_script(b, identifier, MaxTokens, interval_ms, RefillRate,
                                     current_time_in_milliseconds)
    IN [store |-> ev.store, response |-> TokenBucketCore_limit(ev.ret[1], ev.ret[2])]

-----------------------------------------------------------------------------
(* The read-only queries: remaining and reset *)

\* the reply for a missing key or hash field: None
None == NIL
\* the reset of an identifier that is not tracked
Untracked == -1

\* FixedWindow._get_remaining (limiter.py)
FixedWindow_get_remaining(c, identifier) ==
    LET curr_window == now_ms \div window_ms
        num_requests == GET(c, <<identifier, curr_window>>)
    IN IF num_requests = None
       THEN MaxRequests
       ELSE Max(0, MaxRequests - num_requests)

\* FixedWindow._get_reset (limiter.py): no store call
FixedWindow_get_reset(identifier) ==
    LET curr_window == now_ms \div window_ms
    IN ms_to_s((curr_window + 1) * window_ms)

\* SlidingWindow._get_remaining (limiter.py); int() of a non-negative float
\* the weighted previous count rounded up instead of truncated
SlidingWindow_get_remaining_ceil(c, identifier) ==
    LET now == now_ms
        window == now \div window_ms
        num_requests_ == GET(c, <<identifier, window>>)
        prev_num_requests_ == GET(c, <<identifier, window - 1>>)
        num_requests == IF num_requests_ = None THEN 0 ELSE num_requests_
        stored_prev == IF prev_num_requests_ = None THEN 0 ELSE prev_num_requests_
        prev_num_requests ==
            CeilDiv(stored_prev * (window_ms - (now % window_ms)), window_ms)
        remaining == MaxRequests - (prev_num_requests + num_requests)
    IN Max(0, remaining)

SlidingWindow_get_remaining(c, identifier) ==
    LET now == now_ms
        window == now \div window_ms
        num_requests_ == GET(c, <<identifier, window>>)
        prev_num_requests_ == GET(c, <<identifier, window - 1>>)
        num_requests == IF num_requests_ = None THEN 0 ELSE num_requests_
        stored_prev == IF prev_num_requests_ = None THEN 0 ELSE prev_num_requests_
        prev_num_requests == (stored_prev * (window_ms - (now % window_ms))) \div window_ms
        remaining == MaxRequests - (prev_num_requests + num_requests)
    IN Max(0, remaining)

\* SlidingWindow._get_reset (limiter.py): no store call
SlidingWindow_get_reset(identifier) ==
    LET curr_window == now_ms \div window_ms
    IN ms_to_s((curr_window + 1) * window_ms)

\* TokenBucket._get_remaining (limiter.py)
TokenBucket_get_remaining(b, identifier) ==
    LET now == now_ms
    IN IF ~HEXISTS(b, identifier)
       THEN MaxTokens
       ELSE LET refilled_at == b[identifier].refilled_at
                tokens == b[identifier].tokens
            IN IF now >= refilled_at + interval_ms
               THEN LET num_refills == (now - refilled_at) \div interval_ms
                    IN Min(MaxTokens, tokens + num_refills * RefillRate)
               ELSE tokens

\* TokenBucket._get_reset (limiter.py)
TokenBucket_get_reset(b, identifier) ==
    LET now == now_ms
    IN IF ~HEXISTS(b, identifier)
       THEN ms_to_s(now)
       ELSE LET refilled_at0 == b[identifier].refilled_at
                refilled_at ==
                    IF now >= refilled_at0 + interval_ms
                    THEN refilled_at0 + ((now - refilled_at0) \div interval_ms) * interval_ms
                    ELSE refilled_at0
            IN ms_to_s(refilled_at + interval_ms)

\* FixedWindowCore.remaining (algorithms/fixed_window_core.py)
FixedWindowCore_remaining(current_requests) ==
    IF current_requests = None
    THEN MaxRequests
    ELSE MaxRequests - current_requests

\* FixedWindowCore.reset (algorithms/fixed_window_core.py)
FixedWindowCore_reset(exists) ==
    IF ~exists
    THEN Untracked
    ELSE (time_ns \div MsFloat(window_ms)) * window_ms + window_ms

\* FixedWindow.remaining (sync/fixed_window.py)
SyncFixedWindow_remaining(c, identifier) ==
    FixedWindowCore_remaining(GET(c, <<identifier, FixedWindowCore_current_window>>))

\* FixedWindow.reset (sync/fixed_window.py)
SyncFixedWindow_reset(c, identifier) ==
    FixedWindowCore_reset(EXISTS(c, <<identifier, FixedWindowCore_current_window>>))

\* SlidingWindowCore.remaining (algorithms/sliding_window_core.py); estimated is
\* compared exactly, as estimated * window
SlidingWindowCore_remaining(stored_in_current_window, stored_in_previous_window) ==
    LET requests_in_current_window ==
            IF stored_in_current_window = None
            THEN 0 ELSE stored_in_current_window
        requests_in_previous_window ==
            IF stored_in_previous_window = None
            THEN 0 ELSE stored_in_previous_window
        window == MsFloat(window_ms)
        estimated_times_window ==
            requests_in_previous_window
                * (window - (current_time_in_milliseconds % window))
            + requests_in_current_window * window
    IN IF estimated_times_window >= MaxRequests * window
       THEN 0
       ELSE MaxRequests - requests_in_current_window

\* SlidingWindowCore.reset (algorithms/sliding_window_core.py); exists counts keys
SlidingWindowCore_reset(exists) ==
    IF exists = 0
    THEN Untracked
    ELSE (time_ns \div MsFloat(window_ms)) * window_ms + window_ms

\* SlidingWindow.remaining (sync/sliding_window.py)
SyncSlidingWindow_remaining(c, identifier) ==
    SlidingWindowCore_remaining(
        GET(c, <<identifier, SlidingWindowCore_current_window>>),
        GET(c, <<identifier, SlidingWindowCore_previous_window>>))

\* SlidingWindow.reset (sync/sliding_window.py): EXISTS previous_key current_key
SyncSlidingWindow_reset(c, identifier) ==
    SlidingWindowCore_reset(
        (IF EXISTS(c, <<identifier, SlidingWindowCore_previous_window>>) THEN 1 ELSE 0)
        + (IF EXISTS(c, <<identifier, SlidingWindowCore_current_window>>) THEN 1 ELSE 0))

\* TokenBucketCore.remaining (algorithms/token_bucket_core.py); bucket is
\* <<updated_at, tokens>> or <<None, None>>
TokenBucketCore_remaining(bucket) ==
    IF bucket[1] = None
    THEN MaxTokens
    ELSE LET updated_at == bucket[1]
             tokens == bucket[2]
         IN IF current_time_in_milliseconds < updated_at + MsFloat(interval_ms)
            THEN tokens
            ELSE IF tokens <= 0
                 THEN Min(MaxTokens, RefillRate)
                 ELSE Min(MaxTokens, tokens + RefillRate)

\* TokenBucketCore.reset (algorithms/token_bucket_core.py); int(float(updated_at))
\* cuts the stored timestamp to whole milliseconds
TokenBucketCore_reset(updated_at) ==
    LET now == current_time_in_milliseconds
    IN IF updated_at = None
       THEN Untracked
       ELSE LET float_updated_at == updated_at \div TicksPerMs
            IN IF now < MsFloat(float_updated_at + interval_ms)
               THEN float_updated_at + interval_ms
               ELSE LET number_of_refills ==
                            (now - MsFloat(float_updated_at)) \div MsFloat(interval_ms)
                        last_refill == float_updated_at + number_of_refills * interval_ms
                    IN last_refill + interval_ms

\* redis.hmget(key, "updated_at", "tokens")
HMGET(b, key) ==
    IF HEXISTS(b, key) THEN <<b[key].refilled_at, b[key].tokens>> ELSE <<None, None>>

\* TokenBucket.remaining (sync/token_bucket.py)
SyncTokenBucket_remaining(b, identifier) == TokenBucketCore_remaining(HMGET(b, identifier))

\* TokenBucket.reset (sync/token_bucket.py)
SyncTokenBucket_reset(b, identifier) == TokenBucketCore_reset(HMGET(b, identifier)[1])

-----------------------------------------------------------------------------
(* State *)

NoResponse == [allowed |-> FALSE, limit |-> 0, remaining |-> 0, reset |-> 0]
NoCall == [op |-> "none", id |-> "", cost |-> 0, failed |-> FALSE]
NoCalls == [w |-> -1, n |-> 0, unit |-> TRUE, sum |-> 0]
\* no query answered at this instant
NoAnswer == [op |-> "none", id |-> "", value |-> 0]
\* nobody is inside block_until_ready
Idle == [pc |-> "idle", kind |-> "", id |-> "", rate |-> 0, timeout |-> 0,
         start |-> 0, deadline |-> 0, response |-> NoResponse,
         wake |-> 0, asked |-> 0, decisions |-> 0, sleeps |-> 0,
         others |-> FALSE, exhausted |-> FALSE, error |-> ""]

\* no identifier has been seen
NotSeen == -1
NoSeen == [i \in Ids |-> [t0 |-> NotSeen, allowed |-> 0]]

\* the store without expiry has seen no request
NoTwin == [store |-> <<>>, response |-> NoResponse]

\* the concurrent callers, none of them inside limit
Procs == 1..MaxProcs
NoFlight == [pc |-> "idle", id |-> "", window |-> 0, ret |-> 0, allowed |-> FALSE,
             reset |-> 0, exp |-> 0, cmds |-> 0, deadline |-> 0, wake |-> 0, asked |-> 0,
             prev |-> 0, now |-> 0]
NoFlights == [p \in Procs |-> NoFlight]

\* no converter has been called
NoConv == [fn |-> "none", value |-> 0, unit |-> "", done |-> FALSE,
           raised |-> FALSE, result |-> 0]

\* no limiter has been constructed
NotMade == [state |-> "none", limit |-> 0, rate |-> 0, span |-> 0, unit |-> "",
            ms |-> 0, used |-> "no"]

\* __init__ of the limiter classes.  limiter.py asserts the numbers positive and
\* converts with to_ms; the *_core.py classes store what they are given and convert
\* with to_milliseconds unless the unit is "ms"
Limiter_init(cls, limit, rate, span, unit) ==
    LET args == [NotMade EXCEPT !.limit = limit, !.rate = rate, !.span = span,
                                !.unit = unit]
    IN IF cls \in NewImpls
       THEN IF \/ ~(limit > 0)
               \/ ~(span > 0)
               \/ cls = "TokenBucket" /\ ~(rate > 0)
               \/ to_ms_raises(unit)
            THEN [args EXCEPT !.state = "raised"]
            ELSE [args EXCEPT !.state = "constructed", !.ms = to_ms(span, unit)]
       ELSE IF unit = "ms"
            THEN [args EXCEPT !.state = "constructed", !.ms = span]
            ELSE IF to_milliseconds_raises(unit)
                 THEN [args EXCEPT !.state = "raised"]
                 ELSE [args EXCEPT !.state = "constructed",
                                   !.ms = to_milliseconds(span, unit)]

\* the limiter the decisions below are made with
Configured(cls) ==
    IF cls \in {"TokenBucket", "TokenBucketCore"}
    THEN Limiter_init(cls, MaxTokens, RefillRate, Interval, "ms")
    ELSE Limiter_init(cls, MaxRequests, 1, Window, "ms")

Init ==
    /\ clock = 0
    /\ impl \in Impls
    /\ counters = <<>>
    /\ buckets = <<>>
    /\ resp = NoResponse
    /\ last = NoCall
    /\ calls = [i \in Ids |-> NoCalls]
    /\ bur = Idle
    /\ answer = NoAnswer
    /\ made = Configured(impl)
    /\ conv = NoConv
    /\ flight = NoFlights
    /\ seen = NoSeen
    /\ twin = NoTwin

\* time passes; the store drops the keys whose time to live has run out.  A caller
\* about to sleep lags at most MaxLag ticks, a sleeper oversleeps at most MaxOvershoot;
\* a behaviour is followed until block_until_ready returns or raises
Tick ==
    /\ clock < MaxClock
    /\ bur.pc \notin {"done", "raised"}
    /\ bur.pc = "ready" => clock < bur.asked + MaxLag
    /\ bur.pc = "sleeping" => clock < bur.wake + MaxOvershoot
    /\ clock' = clock + 1
    /\ counters' = Purge(counters, clock + 1)
    /\ buckets' = Purge(buckets, clock + 1)
    /\ answer' = NoAnswer
    /\ UNCHANGED <<impl, resp, last, calls, bur, made, conv, flight, seen, twin>>

\* the decision of the limiter in use: the store after it and the Response
Decide(identifier, rate) ==
    CASE impl = "FixedWindow" ->
            LET d == FixedWindow_limit(counters, identifier, rate)
            IN [counters |-> d.store, buckets |-> buckets, response |-> d.response]
      [] impl = "FixedWindowCore" ->
            LET d == SyncFixedWindow_limit(counters, identifier)
            IN [counters |-> d.store, buckets |-> buckets, response |-> d.response]
      [] impl = "SlidingWindow" ->
            LET d == SlidingWindow_limit(counters, identifier, rate)
            IN [counters |-> d.store, buckets |-> buckets, response |-> d.response]
      [] impl = "SlidingWindowCore" ->
            LET d == SyncSlidingWindow_limit(counters, identifier)
            IN [counters |-> d.store, buckets |-> buckets, response |-> d.response]
      [] impl = "TokenBucket" ->
            LET d == TokenBucket_limit(buckets, identifier, rate)
            IN [counters |-> counters, buckets |-> d.store, response |-> d.response]
      [] impl = "TokenBucketCore" ->
            LET d == SyncTokenBucket_limit(buckets, identifier)
            IN [counters |-> counters, buckets |-> d.store, response |-> d.response]

\* the window index a decision made now is charged to
WindowNow == now_ms \div window_ms

\* the bookkeeping of the calls charged to the caller's current window
Charged(identifier, rate) ==
    LET old == calls[identifier]
        same == old.w = WindowNow
    IN [calls EXCEPT ![identifier] =
            [w |-> WindowNow,
             n |-> (IF same THEN old.n ELSE 0) + 1,
             unit |-> (IF same THEN old.unit ELSE TRUE) /\ rate = 1,
             sum |-> (IF same THEN old.sum ELSE 0) + rate]]

\* the model stays finite: a bounded number of calls per window, bounded counters
Bounded(c, b, cl) ==
    /\ \A i \in DOMAIN cl : cl[i].n <= MaxCalls
    /\ \A k \in DOMAIN c : c[k].n <= MaxCount
    /\ \A k \in DOMAIN b : b[k].tokens >= -MaxDebt

\* one decision and what it leaves in the store and in the bookkeeping
Decision(identifier, rate, d) ==
    /\ impl \in CoreImpls => rate = 1
    /\ Bounded(d.counters, d.buckets, Charged(identifier, rate))
    /\ counters' = d.counters
    /\ buckets' = d.buckets
    /\ resp' = d.response
    /\ last' = [op |-> "limit", id |-> identifier, cost |-> rate, failed |-> FALSE]
    /\ calls' = Charged(identifier, rate)
    /\ answer' = NoAnswer
    /\ UNCHANGED <<made, conv, flight>>

\* a fallback decision in place of the failure: allow
OnStoreFailure_allow ==
    [raised |-> FALSE,
     response |-> [allowed |-> TRUE, limit |-> 0, remaining |-> 0, reset |-> 0]]

\* _with_at_most_one_request (limiter.py) / redis.eval (sync/*.py): the command is
\* called once, outside any try, so its exception leaves limit and no Response is made
OnStoreFailure == [raised |-> TRUE, response |-> NoResponse]

\* one decision whose store call fails; the script may or may not have run (applied)
FailedDecision(identifier, rate, d, applied) ==
    /\ impl \in CoreImpls => rate = 1
    /\ IF applied
       THEN /\ Bounded(d.counters, d.buckets, Charged(identifier, rate))
            /\ counters' = d.counters
            /\ buckets' = d.buckets
            /\ calls' = Charged(identifier, rate)
       ELSE UNCHANGED <<counters, buckets, calls>>
    /\ resp' = OnStoreFailure.response
    /\ last' = [op |-> IF OnStoreFailure.raised THEN "limit_raised" ELSE "limit",
                id |-> identifier, cost |-> rate, failed |-> TRUE]
    /\ answer' = NoAnswer
    /\ UNCHANGED <<made, conv, flight>>

\* Ratelimit.limit (asyncio/ratelimit.py) / the limiter's limit (sync/*.py), called
\* by anyone but the caller inside block_until_ready; what becomes of seen is for
\* the step that makes the call to say, and of twin
Limit(identifier, rate) ==
    /\ bur.pc \notin {"done", "raised"}
    /\ Decision(identifier, rate, Decide(identifier, rate))
    /\ bur' = IF bur.pc \in {"ready", "sleeping"} /\ bur.id = identifier
              THEN [bur EXCEPT !.others = TRUE]
              ELSE bur
    /\ UNCHANGED <<clock, impl>>

DoLimit == \E identifier \in Ids, rate \in Costs : Limit(identifier, rate) /\ UNCHANGED <<seen, twin>>

\* the same call when its store call fails
LimitFails(identifier, rate, applied) ==
    /\ bur.pc \notin {"done", "raised"}
    /\ FailedDecision(identifier, rate, Decide(identifier, rate), applied)
    /\ bur' = IF bur.pc \in {"ready", "sleeping"} /\ bur.id = identifier
              THEN [bur EXCEPT !.others = TRUE]
              ELSE bur
    /\ UNCHANGED <<clock, impl, seen, twin>>

DoLimitFails ==
    \E identifier \in Ids, rate \in Costs, applied \in BOOLEAN :
        LimitFails(identifier, rate, applied)

\* the remaining query of the limiter in use
Remaining(identifier) ==
    CASE impl = "FixedWindow" -> FixedWindow_get_remaining(counters, identifier)
      [] impl = "FixedWindowCore" -> SyncFixedWindow_remaining(counters, identifier)
      [] impl = "SlidingWindow" -> SlidingWindow_get_remaining(counters, identifier)
      [] impl = "SlidingWindowCore" -> SyncSlidingWindow_remaining(counters, identifier)
      [] impl = "TokenBucket" -> TokenBucket_get_remaining(buckets, identifier)
      [] impl = "TokenBucketCore" -> SyncTokenBucket_remaining(buckets, identifier)

\* the reset query of the limiter in use
Reset(identifier) ==
    CASE impl = "FixedWindow" -> FixedWindow_get_reset(identifier)
      [] impl = "FixedWindowCore" -> SyncFixedWindow_reset(counters, identifier)
      [] impl = "SlidingWindow" -> SlidingWindow_get_reset(identifier)
      [] impl = "SlidingWindowCore" -> SyncSlidingWindow_reset(counters, identifier)
      [] impl = "TokenBucket" -> TokenBucket_get_reset(buckets, identifier)
      [] impl = "TokenBucketCore" -> SyncTokenBucket_reset(buckets, identifier)

\* Ratelimit.get_remaining (asyncio/ratelimit.py) / the limiter's remaining (sync/*.py)
GetRemaining(identifier) ==
    /\ bur.pc = "idle"
    /\ answer' = [op |-> "get_remaining", id |-> identifier, value |-> Remaining(identifier)]
    /\ UNCHANGED <<clock, impl, counters, buckets, resp, last, calls, bur, made, conv, flight, seen, twin>>

\* Ratelimit.get_reset (asyncio/ratelimit.py) / the limiter's reset (sync/*.py)
GetReset(identifier) ==
    /\ bur.pc = "idle"
    /\ answer' = [op |-> "get_reset", id |-> identifier, value |-> Reset(identifier)]
    /\ UNCHANGED <<clock, impl, counters, buckets, resp, last, calls, bur, made, conv, flight, seen, twin>>

DoGetRemaining == \E identifier \in Ids : GetRemaining(identifier)

DoGetReset == \E identifier \in Ids : GetReset(identifier)

-----------------------------------------------------------------------------
(* block_until_ready *)

\* timeout * 1000000: milliseconds as nanoseconds
ms_to_ns(value) == value * TicksPerMs

\* SyncBlocker / AsyncBlocker.block_until_ready: time_ns() + timeout * 1000000
Blocker_deadline(timeout) == time_ns + ms_to_ns(timeout)

\* the timeout test letting zero through: timeout < 0
InvalidTimeout_negative(timeout) == timeout < 0

\* Ratelimit.block_until_ready raises ValueError("Timeout must be positive");
\* SyncBlocker / AsyncBlocker raise Exception("Timeout must be greater than 0.")
InvalidTimeout(timeout) == timeout <= 0

\* block_until_ready returning its first Response without waiting
Ratelimit_after_first(b, response) == [b EXCEPT !.pc = "done"]

\* block_until_ready sleeping after every decision, allowed or not
Ratelimit_after_sleeps(b, response) == [b EXCEPT !.pc = "ready"]

\* Ratelimit.block_until_ready (asyncio/ratelimit.py): after a decision
Ratelimit_after(b, response) ==
    IF response.allowed
    THEN [b EXCEPT !.pc = "done"]
    ELSE [b EXCEPT !.pc = "ready"]

\* Ratelimit.block_until_ready: wait = max(0, min(response.reset, deadline) - now_s())
Ratelimit_wait_deadline(response, deadline) == Max(0, deadline - now_s)

Ratelimit_wait(response, deadline) == Max(0, Min(response.reset, deadline) - now_s)

\* Ratelimit.block_until_ready: after the sleep, "if now_s() > deadline: break"
Ratelimit_expired(deadline) == now_s > deadline

\* SyncBlocker / AsyncBlocker.block_until_ready: the test of the while loop
Blocker_continue(response, deadline) == ~response.allowed /\ time_ns < deadline

\* SyncBlocker / AsyncBlocker.block_until_ready: after the first decision, which
\* returns if allowed; the deadline is read only then
Blocker_first(b, response) ==
    IF response.allowed
    THEN [b EXCEPT !.pc = "done"]
    ELSE [b EXCEPT !.pc = "ready"]

\* SyncBlocker / AsyncBlocker.block_until_ready: after a decision made in the loop
Blocker_after(b, response) ==
    IF Blocker_continue(response, b.deadline)
    THEN [b EXCEPT !.pc = "ready"]
    ELSE [b EXCEPT !.pc = "done"]

\* SyncBlocker / AsyncBlocker.block_until_ready: the argument of sleep, in nanoseconds
Blocker_wait(response, deadline) == Min(ms_to_ns(response.reset), deadline) - time_ns

\* the call of block_until_ready, up to its first suspension.  The timeout is a
\* whole number of milliseconds: an int of milliseconds for the blockers, the
\* float of seconds ms_to_s(timeout) for Ratelimit
BlockUntilReady(kind, identifier, timeout, rate) ==
    LET d == Decide(identifier, rate)
        got == d.response
        b0 == [Idle EXCEPT !.kind = kind, !.id = identifier, !.rate = rate,
                           !.timeout = timeout, !.start = clock,
                           !.exhausted = GET(counters, <<identifier, WindowNow>>) >= MaxRequests]
        b1 == [b0 EXCEPT !.response = got, !.asked = clock, !.decisions = 1]
    IN /\ bur.pc = "idle"
       /\ kind = "Ratelimit" <=> impl \in NewImpls
       /\ IF InvalidTimeout(timeout)
          THEN /\ bur' = [b0 EXCEPT !.pc = "raised", !.exhausted = FALSE,
                                     !.error = "timeout"]
               /\ last' = [op |-> "block_until_ready", id |-> identifier, cost |-> rate,
                           failed |-> FALSE]
               /\ UNCHANGED <<counters, buckets, resp, calls, answer, made, conv, flight>>
          ELSE /\ Decision(identifier, rate, d)
               /\ bur' = IF kind = "Ratelimit"
                         THEN Ratelimit_after(
                                  [b1 EXCEPT !.deadline = now_s + ms_to_s(timeout)], got)
                         ELSE Blocker_first(b1, got)
       /\ UNCHANGED <<clock, impl, seen, twin>>

\* the caller computes how long to sleep and suspends (a blocker entering its loop
\* reads its deadline first); time.sleep raises ValueError on a negative length,
\* asyncio.sleep returns at once
Sleep ==
    /\ bur.pc = "ready"
    /\ LET deadline == IF bur.kind # "Ratelimit" /\ bur.sleeps = 0
                       THEN Blocker_deadline(bur.timeout)
                       ELSE bur.deadline
           wait == IF bur.kind = "Ratelimit"
                   THEN Ratelimit_wait(bur.response, deadline)
                   ELSE Blocker_wait(bur.response, deadline)
       IN bur' = IF bur.kind = "SyncBlocker" /\ wait < 0
                 THEN [bur EXCEPT !.pc = "raised", !.deadline = deadline,
                                  !.error = "sleep"]
                 ELSE [bur EXCEPT !.pc = "sleeping", !.deadline = deadline,
                                  !.wake = clock + Max(0, wait), !.sleeps = @ + 1]
    /\ UNCHANGED <<clock, impl, counters, buckets, resp, last, calls, answer, made, conv, flight, seen, twin>>

\* the sleep ends and the caller runs up to its next suspension or to its return
Wake ==
    /\ bur.pc = "sleeping"
    /\ clock >= bur.wake
    /\ IF bur.kind = "Ratelimit" /\ Ratelimit_expired(bur.deadline)
       THEN /\ bur' = [bur EXCEPT !.pc = "done"]
            /\ UNCHANGED <<counters, buckets, resp, last, calls, answer, made, conv, flight>>
       ELSE LET d == Decide(bur.id, bur.rate)
                b1 == [bur EXCEPT !.response = d.response, !.asked = clock,
                                  !.decisions = @ + 1]
            IN /\ Decision(bur.id, bur.rate, d)
               /\ bur' = IF bur.kind = "Ratelimit"
                         THEN Ratelimit_after(b1, d.response)
                         ELSE Blocker_after(b1, d.response)
    /\ UNCHANGED <<clock, impl, seen, twin>>

\* block_until_ready after a decision whose store call failed: limit is awaited
\* outside any try, so the failure leaves block_until_ready too
AfterFailure(b) ==
    IF OnStoreFailure.raised
    THEN [b EXCEPT !.pc = "raised", !.error = "store"]
    ELSE IF b.kind = "Ratelimit"
         THEN Ratelimit_after(b, OnStoreFailure.response)
         ELSE IF b.decisions = 1
              THEN Blocker_first(b, OnStoreFailure.response)
              ELSE Blocker_after(b, OnStoreFailure.response)

\* the call of block_until_ready when the store call of its first decision fails
BlockUntilReadyFails(kind, identifier, timeout, rate, applied) ==
    LET b1 == [Idle EXCEPT !.kind = kind, !.id = identifier, !.rate = rate,
                           !.timeout = timeout, !.start = clock,
                           !.exhausted = GET(counters, <<identifier, WindowNow>>) >= MaxRequests,
                           !.deadline = IF kind = "Ratelimit"
                                        THEN now_s + ms_to_s(timeout) ELSE 0,
                           !.response = OnStoreFailure.response,
                           !.asked = clock, !.decisions = 1]
    IN /\ bur.pc = "idle"
       /\ kind = "Ratelimit" <=> impl \in NewImpls
       /\ ~InvalidTimeout(timeout)
       /\ FailedDecision(identifier, rate, Decide(identifier, rate), applied)
       /\ bur' = AfterFailure(b1)
       /\ UNCHANGED <<clock, impl, seen, twin>>

\* the sleep ends and the store call of the decision made on waking fails
WakeFails(applied) ==
    /\ bur.pc = "sleeping"
    /\ clock >= bur.wake
    /\ ~(bur.kind = "Ratelimit" /\ Ratelimit_expired(bur.deadline))
    /\ FailedDecision(bur.id, bur.rate, Decide(bur.id, bur.rate), applied)
    /\ bur' = AfterFailure([bur EXCEPT !.response = OnStoreFailure.response,
                                       !.asked = clock, !.decisions = @ + 1])
    /\ UNCHANGED <<clock, impl, seen, twin>>

Timeouts == -1..MaxTimeout
Kinds == {"Ratelimit", "SyncBlocker", "AsyncBlocker"}

DoBlockUntilReady ==
    \E kind \in Kinds, identifier \in Ids, timeout \in Timeouts, rate \in Costs :
        BlockUntilReady(kind, identifier, timeout, rate)

-----------------------------------------------------------------------------
(* Specifications *)

\* decisions only: nobody calls block_until_ready
Next == Tick \/ DoLimit

Spec == Init /\ [][Next]_vars

\* decisions and one caller of block_until_ready
NextBlock == Tick \/ DoLimit \/ DoBlockUntilReady \/ Sleep \/ Wake

SpecBlock == Init /\ [][NextBlock]_vars

\* decisions and one caller of block_until_ready, with store calls that may fail
DoBlockUntilReadyFails ==
    \E kind \in Kinds, identifier \in Ids, timeout \in Timeouts, rate \in Costs,
       applied \in BOOLEAN :
        BlockUntilReadyFails(kind, identifier, timeout, rate, applied)

DoWakeFails == \E applied \in BOOLEAN : WakeFails(applied)

NextFail ==
    \/ Tick \/ DoLimit \/ DoBlockUntilReady \/ Sleep \/ Wake
    \/ DoLimitFails \/ DoBlockUntilReadyFails \/ DoWakeFails

SpecFail == Init /\ [][NextFail]_vars

\* construction: nothing is constructed yet
InitConfig ==
    /\ clock = 0
    /\ impl \in Impls
    /\ counters = <<>>
    /\ buckets = <<>>
    /\ resp = NoResponse
    /\ last = NoCall
    /\ calls = [i \in Ids |-> NoCalls]
    /\ bur = Idle
    /\ answer = NoAnswer
    /\ made = NotMade
    /\ conv = NoConv
    /\ flight = NoFlights
    /\ seen = NoSeen
    /\ twin = NoTwin

ConfigValues == -1..MaxConfig
Units == {"ms", "s", "m", "h", "d"}
AnyUnits == Units \cup {"w"}

\* the constructor is called
Construct(limit, rate, span, unit) ==
    /\ made.state = "none"
    /\ impl \notin {"TokenBucket", "TokenBucketCore"} => rate = 1
    /\ made' = Limiter_init(impl, limit, rate, span, unit)
    /\ UNCHANGED <<clock, impl, counters, buckets, resp, last, calls, bur, answer, conv, flight, seen, twin>>

DoConstruct ==
    \E limit \in ConfigValues, rate \in ConfigValues, span \in ConfigValues,
       unit \in AnyUnits : Construct(limit, rate, span, unit)

\* the first limit call on the constructed limiter: the window algorithms divide the
\* time by the window length to name the current window
FirstLimit ==
    /\ made.state = "constructed"
    /\ made.used = "no"
    /\ made' = [made EXCEPT !.used =
                    IF impl \notin {"TokenBucket", "TokenBucketCore"} /\ made.ms = 0
                    THEN "raised" ELSE "ran"]
    /\ UNCHANGED <<clock, impl, counters, buckets, resp, last, calls, bur, answer, conv, flight, seen, twin>>

NextConfig == DoConstruct \/ FirstLimit

SpecConfig == InitConfig /\ [][NextConfig]_vars

\* unit conversion: one call of a converter, on any value and unit
ConvValues == (0 - MaxValue)..MaxValue
Converters == {"to_ms", "to_milliseconds"}

InitUnits ==
    /\ clock = 0
    /\ impl \in Impls
    /\ counters = <<>>
    /\ buckets = <<>>
    /\ resp = NoResponse
    /\ last = NoCall
    /\ calls = [i \in Ids |-> NoCalls]
    /\ bur = Idle
    /\ answer = NoAnswer
    /\ made = Configured(impl)
    /\ \E fn \in Converters, value \in ConvValues, unit \in AnyUnits :
           conv = [NoConv EXCEPT !.fn = fn, !.value = value, !.unit = unit]
    /\ flight = NoFlights
    /\ seen = NoSeen
    /\ twin = NoTwin

\* the converter is applied
Convert ==
    /\ ~conv.done
    /\ conv' = IF conv.fn = "to_ms"
               THEN IF to_ms_raises(conv.unit)
                    THEN [conv EXCEPT !.done = TRUE, !.raised = TRUE]
                    ELSE [conv EXCEPT !.done = TRUE,
                                      !.result = to_ms(conv.value, conv.unit)]
               ELSE IF to_milliseconds_raises(conv.unit)
                    THEN [conv EXCEPT !.done = TRUE, !.raised = TRUE]
                    ELSE [conv EXCEPT !.done = TRUE,
                                      !.result = to_milliseconds(conv.value, conv.unit)]
    /\ UNCHANGED <<clock, impl, counters, buckets, resp, last, calls, bur, answer, made, flight, seen, twin>>

NextUnits == Convert

SpecUnits == InitUnits /\ [][NextUnits]_vars

\* concurrent callers of limit on a Fixed Window limiter, one request each
InitRace ==
    /\ clock = 0
    /\ impl \in {"FixedWindow", "FixedWindowCore"}
    /\ counters = <<>>
    /\ buckets = <<>>
    /\ resp = NoResponse
    /\ last = NoCall
    /\ calls = [i \in Ids |-> NoCalls]
    /\ bur = Idle
    /\ answer = NoAnswer
    /\ made = Configured(impl)
    /\ conv = NoConv
    /\ flight = NoFlights
    /\ seen = NoSeen
    /\ twin = NoTwin

\* the client side of limit, up to the store call: the key is built from the
\* client's clock and the request leaves for the store
Send(p, identifier) ==
    /\ flight[p].pc = "idle"
    /\ flight' = [flight EXCEPT ![p] =
                     [NoFlight EXCEPT !.pc = "sent", !.id = identifier,
                                      !.window = IF impl = "FixedWindow"
                                                 THEN now_ms \div window_ms
                                                 ELSE FixedWindowCore_current_window]]
    /\ UNCHANGED <<clock, impl, counters, buckets, resp, last, calls, bur, answer,
                   made, conv, seen, twin>>

\* the store runs the script of the request, whole, at its own time, and the caller
\* gets its Response
Exec(p) ==
    LET key == <<flight[p].id, flight[p].window>>
        ev == IF impl = "FixedWindow"
              THEN FixedWindow_SCRIPT(counters, key, window_ms, 1)
              ELSE FixedWindowCore_script(counters, key, window_ms)
    IN /\ flight[p].pc = "sent"
       /\ counters' = ev.store
       /\ flight' = [flight EXCEPT ![p] =
                        [@ EXCEPT !.pc = "returned", !.ret = ev.ret,
                                  !.allowed = IF impl = "FixedWindow"
                                              THEN ev.ret <= MaxRequests
                                              ELSE FixedWindowCore_limit(ev.ret).allowed,
                                  !.reset = IF impl = "FixedWindow"
                                            THEN ms_to_s((flight[p].window + 1) * window_ms)
                                            ELSE FixedWindowCore_limit(ev.ret).reset,
                                  !.exp = ev.store[key].exp,
                                  !.cmds = 1]]
       /\ UNCHANGED <<clock, impl, buckets, resp, last, calls, bur, answer, made, conv, seen, twin>>

DoSend == \E p \in Procs, identifier \in Ids : Send(p, identifier)

DoExec == \E p \in Procs : Exec(p)

NextRace == Tick \/ DoSend \/ DoExec

SpecRace == InitRace /\ [][NextRace]_vars

\* two identifiers on one limiter
AllIds == Ids \cup {"u2"}

InitPair ==
    /\ clock = 0
    /\ impl \in Impls
    /\ counters = <<>>
    /\ buckets = <<>>
    /\ resp = NoResponse
    /\ last = NoCall
    /\ calls = [i \in AllIds |-> NoCalls]
    /\ bur = Idle
    /\ answer = NoAnswer
    /\ made = Configured(impl)
    /\ conv = NoConv
    /\ flight = NoFlights
    /\ seen = NoSeen
    /\ twin = NoTwin

\* one request a call; the identifier of Ids calls at any time, the other one up to
\* MaxPairClock
DoLimitPair ==
    \E identifier \in AllIds :
        /\ identifier \in Ids \/ clock <= MaxPairClock
        /\ Limit(identifier, 1)
        /\ UNCHANGED <<seen, twin>>

DoGetRemainingPair == \E identifier \in AllIds : GetRemaining(identifier)

DoGetResetPair == \E identifier \in AllIds : GetReset(identifier)

\* either identifier waits, for one request and the longest timeout
DoBlockUntilReadyPair ==
    \E kind \in Kinds, identifier \in AllIds :
        BlockUntilReady(kind, identifier, MaxTimeout, 1)

NextPair ==
    \/ Tick \/ DoLimitPair \/ DoGetRemainingPair \/ DoGetResetPair
    \/ DoBlockUntilReadyPair \/ Sleep \/ Wake

SpecPair == InitPair /\ [][NextPair]_vars

\* decisions and the read-only queries
NextQuery == Tick \/ DoLimit \/ DoGetRemaining \/ DoGetReset

SpecQuery == Init /\ [][NextQuery]_vars

\* the commands a public operation sends to the store, in the order it sends them
StoreCommands(cls, op) ==
    CASE op = "limit" -> <<"eval">>
      [] op = "get_remaining" ->
            (CASE cls = "FixedWindow" -> <<"get">>
               [] cls = "SlidingWindow" -> <<"mget">>
               [] cls = "TokenBucket" -> <<"hmget">>
               [] cls = "FixedWindowCore" -> <<"get">>
               [] cls = "SlidingWindowCore" -> <<"get", "get">>
               [] cls = "TokenBucketCore" -> <<"hmget">>)
      [] op = "get_reset" ->
            (CASE cls \in {"FixedWindow", "SlidingWindow"} -> <<>>
               [] cls = "TokenBucket" -> <<"hget">>
               [] cls \in {"FixedWindowCore", "SlidingWindowCore"} -> <<"exists">>
               [] cls = "TokenBucketCore" -> <<"hget">>)

\* a caller asks for the remaining requests or for the reset, while the others are
\* outside any query.  An operation of at most one command runs against one state of
\* the store and returns; SlidingWindow.remaining (sync/sliding_window.py) sends its
\* first GET, for the current key, and waits for the reply
Ask(p, op, identifier) ==
    /\ bur.pc = "idle"
    /\ flight[p].pc \in {"idle", "returned"}
    /\ \A q \in Procs \ {p} : flight[q] = NoFlight
    /\ IF impl = "SlidingWindowCore" /\ op = "get_remaining"
       THEN /\ flight' = [flight EXCEPT ![p] =
                  [NoFlight EXCEPT !.pc = "sent", !.id = identifier,
                       !.window = SlidingWindowCore_current_window,
                       !.ret = GET(counters, <<identifier, SlidingWindowCore_current_window>>),
                       !.cmds = 1]]
            /\ answer' = NoAnswer
       ELSE /\ flight' = [flight EXCEPT ![p] =
                  [NoFlight EXCEPT !.pc = "returned", !.id = identifier,
                       !.window = WindowNow,
                       !.cmds = Len(StoreCommands(impl, op))]]
            /\ answer' = [op |-> op, id |-> identifier,
                          value |-> IF op = "get_remaining"
                                    THEN Remaining(identifier) ELSE Reset(identifier)]
    /\ UNCHANGED <<clock, impl, counters, buckets, resp, last, calls, bur, made, conv, seen, twin>>

\* SlidingWindow.remaining (sync/sliding_window.py) sends its second GET, for the
\* previous key as named now, and returns what SlidingWindowCore.remaining makes of
\* the two replies at the time it reads now
Answer(p) ==
    /\ flight[p].pc = "sent"
    /\ LET second == GET(counters, <<flight[p].id, SlidingWindowCore_previous_window>>)
       IN /\ answer' = [op |-> "get_remaining", id |-> flight[p].id,
                        value |-> SlidingWindowCore_remaining(flight[p].ret, second)]
          /\ flight' = [flight EXCEPT ![p] = [@ EXCEPT !.pc = "returned", !.cmds = 2]]
    /\ UNCHANGED <<clock, impl, counters, buckets, resp, last, calls, bur, made, conv, seen, twin>>

Queries == {"get_remaining", "get_reset"}

\* decisions and queries, command by command
NextReads ==
    \/ Tick
    \/ DoLimit
    \/ \E p \in Procs, op \in Queries, identifier \in Ids : Ask(p, op, identifier)
    \/ \E p \in Procs : Answer(p)

SpecReads == Init /\ [][NextReads]_vars

\* the same with time that advances and a caller that is scheduled: its sleep is
\* started and ended, and its store calls return
SpecLive ==
    /\ Init /\ [][NextBlock]_vars
    /\ WF_vars(Tick) /\ WF_vars(Sleep) /\ WF_vars(Wake)

-----------------------------------------------------------------------------
(* Claims *)

FixedWindows == {"FixedWindow", "FixedWindowCore"}
SlidingWindows == {"SlidingWindow", "SlidingWindowCore"}
TokenBuckets == {"TokenBucket", "TokenBucketCore"}

\* C1: Fixed Window, one identifier, cost 1, starting from no stored counter: the
\* first max_requests limit calls of a window are allowed, the next call of that
\* window is denied, and the first call after the window has elapsed is allowed
\* again; that is, the n-th unit-cost call of a window is allowed iff n <= max_requests.
C1_FixedWindowQuota ==
    (impl \in FixedWindows /\ last.op = "limit" /\ calls[last.id].unit)
        => (resp.allowed <=> calls[last.id].n <= MaxRequests)

\* the first call of a new window is allowed while the counter of the window before,
\* which went over the quota, is still stored
C1_Witness ==
    /\ impl \in FixedWindows /\ last.op = "limit"
    /\ calls[last.id].unit /\ calls[last.id].n = 1 /\ resp.allowed
    /\ \E k \in DOMAIN counters :
          k[1] = last.id /\ k[2] = calls[last.id].w - 1 /\ counters[k].n = MaxRequests + 1

C3_DeniedLeavesCounters ==
    [][\A identifier \in Ids, rate \in Costs :
          (impl \in SlidingWindows /\ Limit(identifier, rate) /\ ~resp'.allowed)
              => counters' = counters]_vars

\* C4 as stated: Token Bucket: after every limit call that writes the bucket the
\* stored tokens satisfy 0 <= tokens <= max_tokens, for any cost >= 1.
C4_StoredTokensRange ==
    impl \in TokenBuckets =>
        \A k \in DOMAIN buckets : 0 <= buckets[k].tokens /\ buckets[k].tokens <= MaxTokens

\* the whole intervals between the stored refill timestamp and now
IntervalsSince(refilled_at) ==
    IF impl = "TokenBucket"
    THEN (now_ms - refilled_at) \div interval_ms
    ELSE (current_time_in_milliseconds - refilled_at) \div MsFloat(interval_ms)

\* min(max_tokens, stored_tokens + k * refill_rate)
TokensSeen(bucket) ==
    Min(MaxTokens, bucket.tokens + IntervalsSince(bucket.refilled_at) * RefillRate)

RequestTime == IF impl = "TokenBucket" THEN now_ms ELSE current_time_in_milliseconds
RequestTicks == IF impl = "TokenBucket" THEN MsFloat(now_ms) ELSE current_time_in_milliseconds
ResetTicks(response) ==
    IF impl \in NewImpls THEN response.reset ELSE MsFloat(response.reset)

\* C6 as stated: Token Bucket: the first limit call (cost 1) for an identifier with no
\* stored bucket is allowed, stores tokens = max_tokens - 1 with the refill timestamp
\* equal to the request time, and returns remaining = max_tokens - 1 and
\* reset = request time + interval.
C6_FirstCall ==
    [][\A identifier \in Ids :
          (impl \in TokenBuckets /\ Limit(identifier, 1)
           /\ identifier \notin DOMAIN buckets)
          => /\ resp'.allowed
             /\ resp'.remaining = MaxTokens - 1
             /\ buckets'[identifier].tokens = MaxTokens - 1
             /\ buckets'[identifier].refilled_at = RequestTime
             /\ ResetTicks(resp') = RequestTicks + MsFloat(interval_ms)]_vars

\* the time the call has taken, once it has returned or raised
Elapsed == clock - bur.start
\* the timeout T in ticks
Span == MsFloat(bur.timeout)
\* the end of the window that holds time t, in ticks
WindowEnd(t) == ((t \div MsFloat(window_ms)) + 1) * MsFloat(window_ms)

\* C7: block_until_ready with timeout <= 0 (zero included) raises before any
\* decision is issued: no store call is made and the stored state is unchanged.
C7_InvalidTimeout ==
    [][(bur.pc = "idle" /\ bur'.pc # "idle" /\ bur'.timeout <= 0)
          => /\ bur'.pc = "raised"
             /\ bur'.decisions = 0
             /\ last'.op = "block_until_ready"
             /\ counters' = counters /\ buckets' = buckets /\ resp' = resp]_vars

\* the call with timeout 0 has raised, with state stored for the identifier
C7_Witness ==
    /\ bur.pc = "raised" /\ bur.timeout = 0 /\ bur.decisions = 0
    /\ last.op = "block_until_ready"
    /\ (\E k \in DOMAIN counters : k[1] = bur.id) \/ bur.id \in DOMAIN buckets

\* block_until_ready(id, T) on a Fixed Window whose quota for id is exhausted,
\* with W <= T and no other requests for id
C8_Scenario ==
    /\ impl \in FixedWindows /\ bur.pc # "idle" /\ bur.timeout > 0
    /\ bur.exhausted /\ Window <= bur.timeout /\ ~bur.others

\* C8 (as amended): in that scenario the call sleeps once, to the reset of the
\* window, and when it is resumed with less than T elapsed it returns allowed=true
\* from its second decision, made on waking; a Response with allowed=false is
\* returned only with T or more elapsed.
C8_ResolvesAtReset ==
    (C8_Scenario /\ bur.pc = "done" /\ Elapsed < Span)
        => /\ bur.response.allowed
           /\ bur.decisions = 2 /\ bur.sleeps = 1
           /\ bur.asked >= WindowEnd(bur.start)

\* the call has slept to the reset and returned allowed before its deadline
C8_Witness ==
    /\ C8_Scenario /\ bur.pc = "done" /\ Elapsed < Span
    /\ bur.response.allowed /\ bur.sleeps = 1 /\ clock = WindowEnd(bur.start)

\* C8 as stated: in that scenario the call returns allowed=true with elapsed < T.
C8_Original ==
    (C8_Scenario /\ bur.pc = "done") => (bur.response.allowed /\ Elapsed < Span)

\* block_until_ready(id, T) on a Fixed Window whose quota for id is exhausted and
\* whose reset lies beyond now + T
C9_Scenario ==
    /\ impl \in FixedWindows /\ bur.pc # "idle" /\ bur.timeout > 0
    /\ bur.exhausted /\ WindowEnd(bur.start) > bur.start + Span

\* C9 as stated: in that scenario the call returns the last observed Response, which
\* has allowed=false, and the elapsed time of the call is >= T.
C9_TimesOut ==
    (C9_Scenario /\ bur.pc = "done") => (~bur.response.allowed /\ Elapsed >= Span)

\* C10 as stated: block_until_ready never raises merely because the deadline was
\* reached: with a valid timeout it returns the Response of its last decision, and a
\* Response with allowed=false is returned only with the deadline reached.
C10_ReturnsLastResponse ==
    /\ bur.pc = "raised" => bur.timeout <= 0
    /\ bur.pc = "done" => (bur.response.allowed \/ Elapsed >= Span)

\* C11: if the first decision issued by block_until_ready is allowed, the call
\* returns that Response after exactly one decision and without sleeping, at once,
\* whatever the positive timeout.
C11_FirstAllowedReturns ==
    (bur.pc # "idle" /\ bur.decisions = 1 /\ bur.response.allowed)
        => /\ bur.pc = "done"
           /\ bur.sleeps = 0
           /\ Elapsed = 0
           /\ bur.response = resp

\* the call with the longest timeout has returned its first, allowed, Response
C11_Witness ==
    /\ bur.pc = "done" /\ bur.decisions = 1 /\ bur.sleeps = 0
    /\ bur.response.allowed /\ bur.timeout = MaxTimeout /\ bur.kind = "Ratelimit"

\* the latest decision was denied for identifier and the clock stands at its reset
AtResetOfDenied(identifier) ==
    /\ last.op = "limit" /\ last.id = identifier
    /\ ~resp.allowed /\ clock = ResetTicks(resp)

\* C12 as stated: for every denied Response of every algorithm, a limit call
\* (cost 1) for the same identifier made at time = reset, with no other requests in
\* between, returns allowed=true.
C12_AllowedAtReset ==
    [][\A identifier \in Ids :
          (AtResetOfDenied(identifier) /\ Limit(identifier, 1)) => resp'.allowed]_vars

\* the first refill instant after now, in the unit of the limiter's clock reading:
\* whole intervals counted from the stored refill timestamp, or from now if none
NextRefill(identifier) ==
    LET step == IF impl = "TokenBucket" THEN interval_ms ELSE MsFloat(interval_ms)
    IN IF identifier \in DOMAIN buckets
       THEN buckets[identifier].refilled_at
            + (IntervalsSince(buckets[identifier].refilled_at) + 1) * step
       ELSE RequestTime + step

\* C12 (as amended): reset is the end of the window of the decision for Fixed and
\* Sliding Window and the next refill instant for Token Bucket (cut to whole
\* milliseconds by TokenBucketCore); a cost-1 limit call made at the
\* reset of a denied Response, with no request in between, is allowed for Fixed Window.
C12_ResetInstant ==
    [][\A identifier \in Ids, rate \in Costs :
          Limit(identifier, rate) =>
            /\ (impl \in FixedWindows /\ rate = 1 /\ AtResetOfDenied(identifier))
                   => resp'.allowed
            /\ impl \in FixedWindows \cup SlidingWindows
                   => ResetTicks(resp') = WindowEnd(clock)
            /\ impl = "TokenBucket" => resp'.reset = ms_to_s(NextRefill(identifier))
            /\ impl = "TokenBucketCore"
                   => resp'.reset = LuaToInteger(NextRefill(identifier))]_vars

\* a Fixed Window call made at the reset of the window that went over its quota,
\* the first call since, has been allowed
C12_Witness ==
    /\ impl \in FixedWindows /\ last.op = "limit" /\ resp.allowed
    /\ calls[last.id].n = 1 /\ clock = MsFloat(calls[last.id].w * window_ms)
    /\ \E k \in DOMAIN counters :
          k[1] = last.id /\ k[2] = calls[last.id].w - 1 /\ counters[k].n > MaxRequests

\* the store holds no key derived from identifier
NoTrackedState(identifier) ==
    /\ \A k \in DOMAIN counters : k[1] # identifier
    /\ identifier \notin DOMAIN buckets

\* C13 as stated: reset(identifier) for an identifier with no tracked state in the
\* store returns the sentinel -1, for each of the three algorithms, and performs no
\* write to the store.
C13_ResetSentinel ==
    [][\A identifier \in Ids :
          (GetReset(identifier) /\ NoTrackedState(identifier))
              => /\ answer'.value = Untracked
                 /\ counters' = counters /\ buckets' = buckets]_vars

\* C14: when the atomic store call of a decision fails, limit propagates the failure
\* and returns no Response, the store call is not made again, and block_until_ready
\* propagates the same failure instead of continuing to loop.
C14_FailurePropagates ==
    [][(last'.failed /\ last' # last)
          => /\ last'.op = "limit_raised" /\ resp' = NoResponse
             /\ calls'[last'.id].n <= calls[last'.id].n + 1
             /\ (bur'.pc # bur.pc \/ bur'.decisions # bur.decisions)
                    => (bur'.pc = "raised" /\ bur'.error = "store")]_vars

\* block_until_ready has raised the failure of the decision it made on waking
C14_Witness ==
    /\ bur.pc = "raised" /\ bur.error = "store" /\ bur.sleeps = 1 /\ bur.decisions = 2
    /\ last.failed /\ last.op = "limit_raised" /\ resp = NoResponse

\* the arguments of the constructor are not a valid configuration
InvalidConfig(m) ==
    \/ m.unit \notin Units
    \/ m.limit <= 0
    \/ m.span <= 0
    \/ impl \in TokenBuckets /\ m.rate <= 0

\* C15: constructing an algorithm with an invalid unit or a non-positive limit, window,
\* max_tokens, refill_rate or interval fails at construction, so that no call runs
\* with such a configuration or fails because of it.
C15_InvalidRejected ==
    /\ (made.state # "none" /\ InvalidConfig(made)) => made.state = "raised"
    /\ made.used # "no" => (~InvalidConfig(made) /\ made.used = "ran")

\* the new limiters alone
C15_NewRejected == impl \in NewImpls => C15_InvalidRejected

\* C16: to_ms returns value * {1, 1000, 60000, 3600000, 86400000} for the units
\* ms, s, m, h, d and raises for any other unit; the legacy to_milliseconds does the
\* same for s, m, h, d and raises for every other unit, "ms" included.
C16_Conversion ==
    LET factor == [u \in Units |->
                      CASE u = "ms" -> 1 [] u = "s" -> 1000 [] u = "m" -> 60000
                        [] u = "h" -> 3600000 [] u = "d" -> 86400000]
        known == IF conv.fn = "to_ms" THEN Units ELSE Units \ {"ms"}
    IN conv.done =>
          IF conv.unit \in known
          THEN ~conv.raised /\ conv.result = conv.value * factor[conv.unit]
          ELSE conv.raised

\* an hour of to_ms has been converted
C16_Witness ==
    conv.done /\ conv.fn = "to_ms" /\ conv.unit = "h" /\ conv.value = MaxValue
              /\ conv.result = MaxValue * 3600000

\* C16 as stated: both converters return value * factor for every unit of ms, s, m, h, d
C16_Original ==
    (conv.done /\ conv.unit \in Units)
        => /\ ~conv.raised
           /\ conv.result = conv.value *
                 (CASE conv.unit = "ms" -> 1 [] conv.unit = "s" -> 1000
                    [] conv.unit = "m" -> 60000 [] conv.unit = "h" -> 3600000
                    [] conv.unit = "d" -> 86400000)

\* the string keys and the hash key derived from an identifier, with what they hold
KeysOf(c, identifier) == [k \in {j \in DOMAIN c : j[1] = identifier} |-> c[k]]
BucketOf(b, identifier) == [k \in DOMAIN b \cap {identifier} |-> b[k]]

\* this step is a call, or a step of block_until_ready, for the identifier: every
\* step but the passing of time is one, of block_until_ready when its position
\* changes, of a query when an answer is given, of limit otherwise
ActsFor(identifier) ==
    /\ clock' = clock
    /\ identifier = IF bur'.pc # bur.pc THEN bur'.id
                    ELSE IF answer'.op # "none" THEN answer'.id
                    ELSE last'.id

\* C17: callers for different identifiers never interact: a call for A leaves the keys
\* of any other identifier B as they were, and every Response and answer B would get
\* at that instant is the same after the call as before it.
C17_IdentifiersApart ==
    [][\A A \in AllIds, B \in AllIds :
          (A # B /\ ActsFor(A))
              => /\ KeysOf(counters', B) = KeysOf(counters, B)
                 /\ BucketOf(buckets', B) = BucketOf(buckets, B)
                 /\ \A rate \in Costs :
                        (Decide(B, rate).response)' = Decide(B, rate).response
                 /\ Remaining(B)' = Remaining(B)
                 /\ Reset(B)' = Reset(B)]_vars

\* one identifier has just been denied while the other, tracked too, would be allowed
C17_Witness ==
    /\ DOMAIN calls = AllIds
    /\ last.op = "limit" /\ last.id = "u1" /\ ~resp.allowed
    /\ calls["u2"].n >= 1 /\ calls["u2"].w = WindowNow
    /\ Decide("u2", 1).response.allowed

\* the callers that have returned from a call charged to this window
Returned(w) == {p \in Procs : flight[p].pc = "returned" /\ flight[p].window = w}

\* no two calls counted on one counter got the same count from it
C18_Serialized ==
    \A p \in Procs, q \in Procs :
        (p # q /\ flight[p].pc = "returned" /\ flight[q].pc = "returned"
               /\ flight[p].id = flight[q].id /\ flight[p].window = flight[q].window
               /\ flight[p].exp = flight[q].exp)
            => flight[p].ret # flight[q].ret

\* C18: under any interleaving of concurrent limit calls (cost 1) for one identifier,
\* each decision is one atomic step, no two calls act on the same pre-update state, and
\* Fixed Window allows at most max_requests of the calls charged to any one window.
C18_ConcurrentQuota ==
    /\ C18_Serialized
    /\ \A w \in 0..MaxClock :
           Cardinality({p \in Returned(w) : flight[p].allowed}) <= MaxRequests

\* the sum of the costs of the calls made for the identifier in the current window
CostsNow(identifier) ==
    IF calls[identifier].w = WindowNow THEN calls[identifier].sum ELSE 0

\* C19: Fixed Window with a custom cost: a limit call of cost rate adds exactly rate
\* to the counter of the current window, and after calls of costs r1..rn in one window
\* get_remaining returns max(0, max_requests - (r1 + ... + rn)).
C19_CustomCost ==
    [][\A identifier \in Ids :
          LET key == <<identifier, WindowNow>>
          IN /\ (impl = "FixedWindow" /\ \E rate \in Costs : Limit(identifier, rate))
                    => GET(counters', key) = Max(0, GET(counters, key)) + last'.cost
             /\ (impl = "FixedWindow" /\ GetRemaining(identifier))
                    => answer'.value = Max(0, MaxRequests - CostsNow(identifier))]_vars

\* two calls of different costs in one window, over the quota together, and the
\* remaining requests asked for
C19_Witness ==
    /\ impl = "FixedWindow"
    /\ answer.op = "get_remaining" /\ answer.value = 0
    /\ calls[answer.id].w = WindowNow /\ calls[answer.id].n = 2
    /\ calls[answer.id].sum = MaxRequests + 1

\* the limit of the limiter in use
LimitOf == IF impl \in TokenBuckets THEN MaxTokens ELSE MaxRequests

\* remaining agrees with the decision a limit call of cost 1 would make at this instant
Agrees(identifier) ==
    LET r == Remaining(identifier)
        d == Decide(identifier, 1).response
    IN /\ NoTrackedState(identifier) => r = LimitOf
       /\ d.allowed <=> r > 0
       /\ d.allowed => d.remaining = r - 1

\* C20: remaining(id) returns the limit for an untracked identifier, and otherwise the
\* r such that a limit call of cost 1 at the same instant is allowed iff r > 0 and then
\* reports remaining = r - 1, also when several refill intervals have passed since the
\* last write of the Token Bucket.
C20_RemainingAgrees == \A identifier \in Ids : Agrees(identifier)

\* the limiters of limiter.py alone
C20_NewAgree == impl \in NewImpls => C20_RemainingAgrees

\* C21: Sliding Window: with no requests in between, get_remaining(id) called at or
\* after a limit(id) call, a window rollover included, returns at least the remaining
\* that the Response of that call reported.
C21_RemainingNotBelow ==
    (impl = "SlidingWindow" /\ answer.op = "get_remaining"
        /\ last.op = "limit" /\ last.id = answer.id)
        => answer.value >= resp.remaining

\* asked in the window after the one of an allowed call, its count still weighing
C21_Witness ==
    /\ impl = "SlidingWindow" /\ answer.op = "get_remaining"
    /\ last.op = "limit" /\ last.id = answer.id /\ resp.allowed
    /\ calls[answer.id].w = WindowNow - 1
    /\ answer.value > resp.remaining /\ answer.value < MaxRequests

\* the answer of get_reset / reset in ticks
AnswerTicks == IF impl \in NewImpls THEN answer.value ELSE MsFloat(answer.value)

\* C22: Token Bucket get_reset for a tracked identifier returns the next refill
\* instant updated_at + (n+1)*interval with n = floor((now - updated_at)/interval),
\* a time t with now < t <= now + interval.
C22_NextRefillInstant ==
    (impl \in TokenBuckets /\ answer.op = "get_reset" /\ answer.id \in DOMAIN buckets)
        => /\ AnswerTicks = (IF impl = "TokenBucket"
                             THEN ms_to_s(NextRefill(answer.id))
                             ELSE NextRefill(answer.id))
           /\ RequestTicks < AnswerTicks
           /\ AnswerTicks <= RequestTicks + MsFloat(interval_ms)

\* the limiter of limiter.py alone
C22_NewInstant == impl = "TokenBucket" => C22_NextRefillInstant

\* the reset asked two intervals or more after the last write of the bucket
C22_Witness ==
    /\ impl = "TokenBucket" /\ answer.op = "get_reset" /\ answer.id \in DOMAIN buckets
    /\ IntervalsSince(buckets[answer.id].refilled_at) >= 2
    /\ answer.value = ms_to_s(buckets[answer.id].refilled_at + 3 * interval_ms)

\* the counter of the identifier's current window, 0 when there is none
CounterNow(c, identifier) == Max(0, GET(c, <<identifier, WindowNow>>))

C24_ExpirySetOnce ==
    [][/\ \A identifier \in Ids, rate \in Costs :
             (impl \in FixedWindows /\ Limit(identifier, rate))
                 => LET key == <<identifier, WindowNow>>
                    IN counters'[key].exp = IF EXISTS(counters, key)
                                            THEN counters[key].exp
                                            ELSE clock + MsFloat(window_ms)
       /\ \A key \in DOMAIN counters :
             impl \in FixedWindows
                 => /\ counters[key].exp >= MsFloat((key[2] + 1) * window_ms)
                    /\ (key[2] = WindowNow')
                          => (/\ key \in DOMAIN counters'
                              /\ counters'[key].n >= counters[key].n)]_vars

\* a second call late in the window has left the expiry of the first
C24_Witness ==
    /\ impl \in FixedWindows /\ last.op = "limit"
    /\ calls[last.id].w = WindowNow /\ calls[last.id].n >= 2
    /\ clock % MsFloat(window_ms) = MsFloat(window_ms) - 1
    /\ counters[<<last.id, WindowNow>>].exp < clock + MsFloat(window_ms)

\* C25: Fixed Window: the reset reported by limit and by get_reset is always
\* (window_index + 1) * window_ms for the window the request was charged to,
\* identical for allowed and denied outcomes; get_reset for Fixed and Sliding Window
\* computes it without any store call.
C25_ResetOfChargedWindow ==
    \A p \in Procs :
        flight[p].pc = "returned"
            => ResetTicks(flight[p]) = MsFloat((flight[p].window + 1) * window_ms)

\* the limiter of limiter.py alone
C25_NewReset == impl = "FixedWindow" => C25_ResetOfChargedWindow

\* the same without requests in flight, and get_reset of limiter.py whatever the
\* store holds
C25_AtOneInstant ==
    /\ (impl \in FixedWindows /\ last.op = "limit" /\ last.id \in Ids
           /\ calls[last.id].w = WindowNow)
           => ResetTicks(resp) = MsFloat((calls[last.id].w + 1) * window_ms)
    /\ (impl \in {"FixedWindow", "SlidingWindow"} /\ answer.op = "get_reset")
           => answer.value = ms_to_s((WindowNow + 1) * window_ms)

\* weighted_previous + current_count >= limit for the identifier at this instant, a
\* window without a stored counter counting as 0; both sides are times the window
EstimateAtLimit(identifier) ==
    LET window == IF impl = "SlidingWindow" THEN window_ms ELSE MsFloat(window_ms)
        now == IF impl = "SlidingWindow" THEN now_ms ELSE current_time_in_milliseconds
        current_count == Max(0, GET(counters, <<identifier, WindowNow>>))
        previous_count == Max(0, GET(counters, <<identifier, WindowNow - 1>>))
    IN previous_count * (window - (now % window)) + current_count * window
           >= MaxRequests * window

\* C26: Sliding Window: a limit call is denied exactly when weighted_previous +
\* current_count >= limit, weighted_previous being the stored count of the previous
\* window times 1 - (now mod window)/window, and a window with no stored counter
\* counting as 0, the previous and the current one alike.
C26_DeniedAtEstimate ==
    [][\A identifier \in Ids, rate \in Costs :
          (impl \in SlidingWindows /\ Limit(identifier, rate))
              => (~resp'.allowed <=> EstimateAtLimit(identifier))]_vars

\* the limiter of limiter.py, one request a call
C26_NewUnitCost ==
    [][\A identifier \in Ids :
          (impl = "SlidingWindow" /\ Limit(identifier, 1))
              => (~resp'.allowed <=> EstimateAtLimit(identifier))]_vars

\* the current window holds requests, fewer than the limit, and with the weighted
\* count of the window before it the estimate is at the limit
PreviousDecides(identifier) ==
    LET current_count == GET(counters, <<identifier, WindowNow>>)
    IN /\ current_count >= 1
       /\ current_count < MaxRequests
       /\ EstimateAtLimit(identifier)

\* C27: Sliding Window: the previous window used by a decision is the window with
\* index current_window - 1: the requests counted in window N weigh in every decision
\* made in window N+1, so a call that only they bring to the limit is denied.
C27_PreviousWindowCounts ==
    [][\A identifier \in Ids :
          (impl \in SlidingWindows /\ Limit(identifier, 1) /\ PreviousDecides(identifier))
              => ~resp'.allowed]_vars

\* the limiter of limiter.py alone
C27_NewPrevious ==
    [][\A identifier \in Ids :
          (impl = "SlidingWindow" /\ Limit(identifier, 1) /\ PreviousDecides(identifier))
              => ~resp'.allowed]_vars

\* a call of limiter.py denied by the count of the window before
C27_NewWitness ==
    /\ impl = "SlidingWindow" /\ last.op = "limit" /\ ~resp.allowed
    /\ PreviousDecides(last.id)

\* the stored count of the window before the current one, weighted and floor-rounded
WeightedPrevious(identifier) ==
    LET window == IF impl = "SlidingWindow" THEN window_ms ELSE MsFloat(window_ms)
        now == IF impl = "SlidingWindow" THEN now_ms ELSE current_time_in_milliseconds
        previous_count == Max(0, GET(counters, <<identifier, WindowNow - 1>>))
    IN (previous_count * (window - (now % window))) \div window

\* C28: Sliding Window: for an allowed request the reported remaining equals
\* limit - (incremented current count + weighted previous count), floor-rounded, so
\* the first allowed request of a window reports remaining < limit - 1 when the
\* window before holds requests that still carry weight.
C28_RemainingCountsPrevious ==
    [][\A identifier \in Ids, rate \in Costs :
          (impl \in SlidingWindows /\ Limit(identifier, rate) /\ resp'.allowed)
              => resp'.remaining = MaxRequests -
                    (CounterNow(counters', identifier) + WeightedPrevious(identifier))]_vars

\* the limiter of limiter.py alone
C28_NewRemaining ==
    [][\A identifier \in Ids, rate \in Costs :
          (impl = "SlidingWindow" /\ Limit(identifier, rate) /\ resp'.allowed)
              => resp'.remaining = MaxRequests -
                    (CounterNow(counters', identifier) + WeightedPrevious(identifier))]_vars

\* the first allowed request of a window of limiter.py reports less than limit - 1
C28_NewWitness ==
    /\ impl = "SlidingWindow" /\ last.op = "limit" /\ resp.allowed
    /\ calls[last.id].n = 1 /\ calls[last.id].w = WindowNow
    /\ resp.remaining < MaxRequests - 1

\* C29: Sliding Window: the first increment of a window's counter sets its expiry to
\* 2 * window + 1000 ms and no later call changes it, so a counter created at any
\* time within window N is still in the store at every instant of window N+1.
C29_CounterOutlivesNext ==
    [][/\ \A identifier \in Ids, rate \in Costs :
             (impl \in SlidingWindows /\ Limit(identifier, rate))
                 => LET key == <<identifier, WindowNow>>
                    IN key \in DOMAIN counters'
                          => counters'[key].exp =
                                IF EXISTS(counters, key)
                                THEN counters[key].exp
                                ELSE clock + MsFloat(2 * window_ms + 1000)
       /\ \A key \in DOMAIN counters :
             (impl \in SlidingWindows /\ key[2] >= WindowNow' - 1)
                 => key \in DOMAIN counters']_vars

\* at the last instant of a window the counter of the window before, incremented
\* more than once, is still stored
C29_Witness ==
    /\ impl \in SlidingWindows
    /\ clock % MsFloat(window_ms) = MsFloat(window_ms) - 1
    /\ WindowNow >= 1
    /\ \E k \in DOMAIN counters : k[2] = WindowNow - 1 /\ counters[k].n >= 2

\* the next refill instant of a tracked bucket, in ticks
NextRefillTicks(identifier) ==
    IF impl = "TokenBucket" THEN ms_to_s(NextRefill(identifier)) ELSE NextRefill(identifier)

\* C30: Token Bucket: when the bucket holds no tokens after any due refill, limit
\* returns allowed = false, leaves the stored tokens and refill timestamp unchanged
\* (repeated denied calls do not drive the tokens further down), and reports
\* reset = updated_at + interval.
C30_EmptyBucketDenied ==
    [][\A identifier \in Ids, rate \in Costs :
          (/\ impl \in TokenBuckets /\ Limit(identifier, rate)
           /\ identifier \in DOMAIN buckets
           /\ TokensSeen(buckets[identifier]) <= 0)
              => /\ ~resp'.allowed
                 /\ buckets' = buckets
                 /\ ResetTicks(resp') = NextRefillTicks(identifier)]_vars

\* the limiter of limiter.py on a bucket that holds exactly 0 tokens
C30_NewEmpty ==
    [][\A identifier \in Ids, rate \in Costs :
          (/\ impl = "TokenBucket" /\ Limit(identifier, rate)
           /\ identifier \in DOMAIN buckets
           /\ TokensSeen(buckets[identifier]) = 0)
              => /\ ~resp'.allowed
                 /\ buckets' = buckets
                 /\ ResetTicks(resp') = NextRefillTicks(identifier)]_vars

\* a call of limiter.py denied on a bucket of 0 tokens
C30_NewWitness ==
    /\ impl = "TokenBucket" /\ last.op = "limit" /\ ~resp.allowed
    /\ last.id \in DOMAIN buckets /\ buckets[last.id].tokens = 0

\* the stored refill timestamp of a bucket, in ticks
BucketTicks(bucket) ==
    IF impl = "TokenBucket" THEN ms_to_s(bucket.refilled_at) ELSE bucket.refilled_at

\* the time, in ticks, of the write that left this bucket of limiter.py, from the
\* expiry that write has set
WrittenAt(bucket) ==
    bucket.exp - MsFloat(CeilDiv(MaxTokens - bucket.tokens, RefillRate) * interval_ms)

\* C31: Token Bucket: over any sequence of limit calls while the bucket exists, the
\* stored refill timestamp never decreases and changes only by a positive whole
\* multiple of interval; it is never snapped to the request time of a later call.
C31_RefillTimestampSteps ==
    [][\A identifier \in Ids :
          (impl \in TokenBuckets /\ identifier \in DOMAIN buckets
              /\ identifier \in DOMAIN buckets')
              => LET moved == BucketTicks(buckets'[identifier])
                                  - BucketTicks(buckets[identifier])
                 IN moved >= 0 /\ moved % MsFloat(interval_ms) = 0]_vars

\* the only call of an interval, made a millisecond or more after the refill instant
\* that starts it, has found an older bucket (a new one would hold max_tokens less
\* the cost) and has stored that refill instant, not its own time
C31_Witness ==
    /\ impl = "TokenBucket" /\ last.op = "limit" /\ last.id \in DOMAIN buckets
    /\ interval_ms = window_ms
    /\ calls[last.id].n = 1
    /\ buckets[last.id].refilled_at = calls[last.id].w * window_ms
    /\ buckets[last.id].tokens + calls[last.id].sum < MaxTokens
    /\ WrittenAt(buckets[last.id]) >= ms_to_s(buckets[last.id].refilled_at + 1)

\* the caller computes its sleep now: it sleeps, for max(0, min(reset, deadline) - now)
\* with the reset of its latest Response, a denied one, and not past the deadline
SleepsClamped ==
    /\ bur'.pc = "sleeping"
    /\ ~bur.response.allowed
    /\ bur'.wake - clock = Max(0, Min(ResetTicks(bur.response), bur'.deadline) - clock)
    /\ bur'.wake <= Max(clock, bur'.deadline)
    /\ bur'.wake >= clock

\* C32: in every implementation of block_until_ready each sleep has the duration
\* max(0, min(response.reset, deadline) - now): it is computed from the reset of the
\* latest denied Response, never extends past the deadline, and is never negative,
\* even when reset or the deadline is already past when the sleep is computed.
C32_SleepLength ==
    [][(bur.pc = "ready" /\ bur'.pc # bur.pc) => SleepsClamped]_vars

\* Ratelimit and AsyncBlocker alone
C32_AsyncSleepLength ==
    [][(bur.pc = "ready" /\ bur'.pc # bur.pc /\ bur.kind # "SyncBlocker")
          => SleepsClamped]_vars

\* a sleep of no length: the reset was past when it was computed
C32_AsyncWitness ==
    /\ bur.pc = "sleeping" /\ bur.kind # "SyncBlocker"
    /\ bur.wake = bur.asked + MaxLag
    /\ ResetTicks(bur.response) < bur.wake /\ bur.wake < bur.deadline

\* the call has returned the Response of a decision made after its last sleep
DecidedAfterSleep ==
    /\ bur.decisions = bur.sleeps + 1
    /\ bur.sleeps > 0 => bur.asked >= bur.wake

\* C33: in block_until_ready every sleep is followed by a new decision before the
\* call returns, so the returned Response always comes from a decision issued after
\* the last sleep, and a caller whose sleep ends at the reset instant is not handed
\* the stale denied Response from before that sleep.
C33_DecisionAfterSleep == bur.pc = "done" => DecidedAfterSleep

\* SyncBlocker and AsyncBlocker always, Ratelimit when resumed by its deadline
C33_DecisionByDeadline ==
    (bur.pc = "done" /\ (bur.kind # "Ratelimit" \/ clock <= bur.deadline))
        => DecidedAfterSleep

\* a caller of Ratelimit resumed at the reset instant has returned the allowed
\* Response of the decision it made then
C33_ResetWitness ==
    /\ bur.pc = "done" /\ bur.kind = "Ratelimit" /\ bur.sleeps = 1 /\ bur.decisions = 2
    /\ bur.response.allowed /\ bur.asked = bur.wake /\ clock = bur.wake

\* C34: every public operation (limit, get_remaining / remaining, get_reset / reset)
\* issues at most one command to the store, so every value it combines comes from a
\* single atomic store state; get_reset of Fixed and Sliding Window issues none.
C34_AtMostOneCommand ==
    /\ last.op = "limit" => Len(StoreCommands(impl, "limit")) <= 1
    /\ \A p \in Procs : flight[p].pc = "returned" => flight[p].cmds <= 1
    /\ (answer.op = "get_reset" /\ impl \in {"FixedWindow", "SlidingWindow"})
           => \A p \in Procs : flight[p].cmds = 0

\* the limiters of limiter.py alone
C34_NewOneCommand == impl \in NewImpls => C34_AtMostOneCommand

\* get_reset of a Fixed or Sliding Window of limiter.py has answered
C34_NewWitness ==
    /\ impl \in {"FixedWindow", "SlidingWindow"} /\ answer.op = "get_reset"
    /\ last.op = "limit" /\ ~resp.allowed
    /\ \E p \in Procs : flight[p].pc = "returned" /\ flight[p].cmds = 0

\* the deadline of the caller, or the latest it can be while a blocker has not read it
DeadlineBy ==
    IF bur.kind = "Ratelimit" \/ bur.sleeps > 0
    THEN bur.deadline
    ELSE bur.asked + MaxLag + ms_to_ns(bur.timeout)

\* the caller is inside block_until_ready, its first decision denied; the calls
\* followed to their end are those whose deadline the clock of the model passes
Waiting == bur.pc \in {"ready", "sleeping"} /\ DeadlineBy < MaxClock

\* the decision the woken caller is about to make lies beyond the bounds of the model
Beyond ==
    /\ bur.pc = "sleeping" /\ clock >= bur.wake
    /\ ~(bur.kind = "Ratelimit" /\ Ratelimit_expired(bur.deadline))
    /\ LET d == Decide(bur.id, bur.rate)
       IN ~Bounded(d.counters, d.buckets, Charged(bur.id, bur.rate))

\* no sleep of a positive length is started once the deadline has passed
NoSleepPastDeadline ==
    [][(bur.pc = "ready" /\ bur'.pc = "sleeping" /\ bur'.wake > clock)
          => clock <= bur'.deadline]_vars

\* C35: block_until_ready terminates: for any positive timeout and any behaviour of
\* the limiter (every decision denied, reset values already past), provided time
\* advances and store calls return, the call returns after finitely many decisions,
\* and it starts no new sleep once the deadline has passed.
C35_Returns ==
    /\ Waiting ~> (bur.pc = "done" \/ Beyond)
    /\ NoSleepPastDeadline

\* the call ends, by returning or, for SyncBlocker, by the ValueError of time.sleep
C35_Ends ==
    /\ Waiting ~> (bur.pc \in {"done", "raised"} \/ Beyond)
    /\ NoSleepPastDeadline

\* a call has returned its third denied Response, its deadline passed
C35_EndsWitness ==
    /\ bur.pc = "done" /\ bur.deadline < MaxClock /\ ~bur.response.allowed
    /\ bur.decisions = 3 /\ clock >= bur.deadline

\* C36: every Response returned by limit, for every algorithm and whether allowed or
\* denied, carries a reset strictly later than the request time used for the
\* decision, so a blocked caller that sleeps until reset always makes progress in time.
C36_ResetAfterRequest ==
    [][\A identifier \in Ids, rate \in Costs :
          Limit(identifier, rate) => ResetTicks(resp') > RequestTicks]_vars

\* the limiters of limiter.py and the legacy window algorithms: reset is later than
\* the time of the call itself
C36_ResetAhead ==
    [][\A identifier \in Ids, rate \in Costs :
          (impl # "TokenBucketCore" /\ Limit(identifier, rate))
              => ResetTicks(resp') > clock]_vars

\* a denied Response of limiter.py's Token Bucket made in the last half millisecond
\* before the refill
C36_AheadWitness ==
    /\ impl = "TokenBucket" /\ last.op = "limit" /\ ~resp.allowed
    /\ resp.reset = clock + 1

\* a Token Bucket limiter whose calls are counted from the first one on
InitCount == Init /\ impl \in TokenBuckets

\* limit, one request a call, counted: the request time of the identifier's first
\* call and the number of its allowed Responses
CountedLimit(identifier) ==
    /\ Limit(identifier, 1)
    /\ seen' = [seen EXCEPT ![identifier] =
                   [t0 |-> IF @.t0 = NotSeen THEN RequestTime ELSE @.t0,
                    allowed |-> @.allowed + (IF resp'.allowed THEN 1 ELSE 0)]]
    /\ UNCHANGED twin

NextCount ==
    \/ Tick
    \/ \E identifier \in Ids : CountedLimit(identifier)

SpecCount == InitCount /\ [][NextCount]_vars

\* the whole intervals between the request time of the first call and the request
\* time now
IntervalsSeen(identifier) ==
    (RequestTime - seen[identifier].t0)
        \div (IF impl = "TokenBucket" THEN interval_ms ELSE MsFloat(interval_ms))

\* C37: Token Bucket admission bound: for an identifier first seen at time t0 and any
\* sequence of limit calls (cost 1) with non-decreasing times, those in which the
\* bucket key expires and is recreated included, the number of allowed Responses
\* issued up to time t is at most max_tokens + floor((t - t0) / interval) * refill_rate.
C37_AdmissionBound ==
    \A identifier \in Ids :
        seen[identifier].t0 # NotSeen
            => seen[identifier].allowed
                   <= MaxTokens + IntervalsSeen(identifier) * RefillRate

\* more calls than the bucket holds have been allowed, the last ones on a bucket that
\* was recreated after its key had expired: its refill timestamp is off the intervals
\* counted from the first call
C37_Witness ==
    /\ impl = "TokenBucket" /\ last.op = "limit" /\ resp.allowed
    /\ last.id \in DOMAIN buckets
    /\ seen[last.id].allowed > MaxTokens
    /\ (buckets[last.id].refilled_at - seen[last.id].t0) % interval_ms # 0

\* Token Bucket alone, as key expiry is set by TokenBucket.SCRIPT only
InitTwin == Init /\ impl = "TokenBucket"

\* a store that ignores PEXPIRE: every key it is given stays
NeverExpires(b) == [k \in DOMAIN b |-> [b[k] EXCEPT !.exp = NoExpiry]]

\* one request of cost 1, given to the store and to the store that never expires a key
TwinLimit(identifier) ==
    /\ Limit(identifier, 1)
    /\ LET d == TokenBucket_limit(twin.store, identifier, 1)
       IN twin' = [store |-> NeverExpires(d.store), response |-> d.response]
    /\ UNCHANGED seen

NextTwin ==
    \/ Tick
    \/ \E identifier \in Ids : TwinLimit(identifier)

SpecTwin == InitTwin /\ [][NextTwin]_vars

\* C38: Token Bucket key expiry is decision-neutral: a run in which keys expire gives
\* the same allowed and remaining results as the same requests on a store whose keys
\* never expire.
C38_ExpiryNeutral ==
    last.op = "limit"
        => /\ resp.allowed = twin.response.allowed
           /\ resp.remaining = twin.response.remaining

\* the tokens the refill rule gives a stored bucket at the time t in ticks
TokensAt(bucket, t) ==
    Min(MaxTokens,
        bucket.tokens
            + (((t \div TicksPerMs) - bucket.refilled_at) \div interval_ms) * RefillRate)

\* C38, the expiry itself: at the instant a key expires, the refill rule would already
\* have brought its bucket to max_tokens.
C38_FullAtExpiry ==
    [][\A identifier \in Ids :
          (identifier \in DOMAIN buckets /\ identifier \notin DOMAIN buckets')
              => TokensAt(buckets[identifier], clock') = MaxTokens]_vars

\* the last request made its bucket anew, the key having expired, where the store
\* without expiry kept the bucket it had
AfterExpiry ==
    /\ last.op = "limit"
    /\ last.id \in DOMAIN buckets
    /\ buckets[last.id].refilled_at = RequestTime
    /\ buckets[last.id].tokens = MaxTokens - 1
    /\ buckets[last.id].refilled_at # twin.store[last.id].refilled_at

\* C38, the first decision after an expiry: it is the one the store without expiry
\* gives, but for the time of the next refill.
C38_SameAfterExpiry ==
    AfterExpiry
        => /\ resp.allowed = twin.response.allowed
           /\ resp.remaining = twin.response.remaining

\* a bucket was made anew after its key expired, and the two stores count their
\* intervals from different times
C38_ExpiredWitness == AfterExpiry /\ resp.reset # twin.response.reset

\* Fixed Window of limiter.py behind Ratelimit, several callers blocked on it
InitCallers == Init /\ impl = "FixedWindow"

\* the windows a timeout spans for every one of the callers to get its turn
NeededWindows == ((MaxProcs + MaxRequests - 1) \div MaxRequests) + 1

\* the timeouts of the callers, in milliseconds
LongTimeouts == {NeededWindows * window_ms, NeededWindows * window_ms + 1}

\* caller p is inside block_until_ready
Blocked(p) == flight[p].pc \in {"ready", "sleeping"}

\* one turn of the loop of Ratelimit.block_until_ready for caller p: limit is
\* called and the caller leaves the loop if the Response allows
CallerDecision(p, identifier, deadline) ==
    LET d == Decide(identifier, 1)
    IN /\ Bounded(d.counters, d.buckets, Charged(identifier, 1))
       /\ counters' = d.counters
       /\ buckets' = d.buckets
       /\ resp' = d.response
       /\ last' = [op |-> "limit", id |-> identifier, cost |-> 1, failed |-> FALSE]
       /\ calls' = Charged(identifier, 1)
       /\ answer' = NoAnswer
       /\ flight' = [flight EXCEPT ![p] =
                        [@ EXCEPT !.pc = IF d.response.allowed THEN "returned" ELSE "ready",
                                  !.id = identifier,
                                  !.window = WindowNow,
                                  !.allowed = d.response.allowed,
                                  !.reset = d.response.reset,
                                  !.deadline = deadline,
                                  !.asked = clock,
                                  !.cmds = @ + 1]]

\* caller p calls block_until_ready(identifier, timeout): the deadline is read, then
\* the first decision is taken
Enter(p, identifier, timeout) ==
    /\ flight[p].pc = "idle"
    /\ clock < MaxStart
    /\ CallerDecision(p, identifier, now_s + ms_to_s(timeout))
    /\ UNCHANGED <<clock, impl, bur, made, conv, seen, twin>>

\* caller p, denied, computes its wait and suspends in asyncio.sleep
Suspend(p) ==
    /\ flight[p].pc = "ready"
    /\ flight' = [flight EXCEPT ![p] =
                     [@ EXCEPT !.pc = "sleeping",
                               !.wake = clock + Ratelimit_wait(flight[p], flight[p].deadline)]]
    /\ UNCHANGED <<clock, impl, counters, buckets, resp, last, calls, bur, answer, made, conv, seen, twin>>

\* the sleep of caller p ends: it leaves the loop if the deadline is behind, and
\* takes a new decision if not
Resume(p) ==
    /\ flight[p].pc = "sleeping"
    /\ clock >= flight[p].wake
    /\ IF Ratelimit_expired(flight[p].deadline)
       THEN /\ flight' = [flight EXCEPT ![p] = [@ EXCEPT !.pc = "returned"]]
            /\ UNCHANGED <<counters, buckets, resp, last, calls, answer>>
       ELSE CallerDecision(p, flight[p].id, flight[p].deadline)
    /\ UNCHANGED <<clock, impl, bur, made, conv, seen, twin>>

\* time passes for the callers: none is kept from its wait longer than MaxLag, none
\* sleeps longer than MaxOvershoot past its wake time
TickCallers ==
    /\ clock < MaxStart \/ \E p \in Procs : Blocked(p)
    /\ \A p \in Procs : flight[p].pc = "ready" => clock < flight[p].asked + MaxLag
    /\ \A p \in Procs : flight[p].pc = "sleeping" => clock < flight[p].wake + MaxOvershoot
    /\ clock' = clock + 1
    /\ counters' = Purge(counters, clock + 1)
    /\ buckets' = Purge(buckets, clock + 1)
    /\ answer' = NoAnswer
    /\ UNCHANGED <<impl, resp, last, calls, bur, made, conv, flight, seen, twin>>

NextCallers ==
    \/ TickCallers
    \/ \E p \in Procs, identifier \in Ids, timeout \in LongTimeouts : Enter(p, identifier, timeout)
    \/ \E p \in Procs : Suspend(p)
    \/ \E p \in Procs : Resume(p)

SpecCallers == InitCallers /\ [][NextCallers]_vars

\* the event loop runs every caller that can run, and time passes
SpecCallersFair ==
    /\ SpecCallers
    /\ WF_vars(TickCallers)
    /\ \A p \in Procs : WF_vars(Suspend(p)) /\ WF_vars(Resume(p))

\* the callers that returned allowed on a decision taken in window w
AdmittedIn(w) == {p \in Returned(w) : flight[p].allowed}

InitReadings == Init /\ impl \in FixedWindows \cup SlidingWindows

\* no caller is between the first clock reading of its call and its Response
NoneCalling == \A q \in Procs : flight[q].pc \in {"idle", "returned"}

\* Sliding Window limit, the first clock reading. SlidingWindow._limit (limiter.py)
\* reads now_ms() once and derives the keys and the argument from it, and the request
\* leaves; the legacy limit evaluates get_current_key first, which reads the clock
\* in current_window
CurrentKey(p, identifier) ==
    /\ impl \in SlidingWindows
    /\ flight[p].pc = "idle"
    /\ NoneCalling
    /\ flight' = [flight EXCEPT ![p] =
                     IF impl = "SlidingWindow"
                     THEN [NoFlight EXCEPT !.pc = "sent", !.id = identifier,
                                           !.window = now_ms \div window_ms,
                                           !.prev = (now_ms \div window_ms) - 1,
                                           !.now = now_ms]
                     ELSE [NoFlight EXCEPT !.pc = "key", !.id = identifier,
                                           !.window = SlidingWindowCore_current_window]]
    /\ UNCHANGED <<clock, impl, counters, buckets, resp, last, calls, bur, answer, made, conv, seen, twin>>

\* legacy Sliding Window limit: get_previous_key reads the clock again, in
\* previous_window
PreviousKey(p) ==
    /\ flight[p].pc = "key"
    /\ flight' = [flight EXCEPT ![p] =
                     [@ EXCEPT !.pc = "keys", !.prev = SlidingWindowCore_previous_window]]
    /\ UNCHANGED <<clock, impl, counters, buckets, resp, last, calls, bur, answer, made, conv, seen, twin>>

\* legacy Sliding Window limit: current_time_in_milliseconds is read for the
\* argument of the script, and the request leaves
NowArgument(p) ==
    /\ flight[p].pc = "keys"
    /\ flight' = [flight EXCEPT ![p] =
                     [@ EXCEPT !.pc = "sent", !.now = current_time_in_milliseconds]]
    /\ UNCHANGED <<clock, impl, counters, buckets, resp, last, calls, bur, answer, made, conv, seen, twin>>

\* the store runs the Sliding Window script on the keys and the time it was sent, and
\* the caller builds its Response: limiter.py from the curr_window it has,
\* SlidingWindowCore.limit from time_ns(), read then
Eval(p) ==
    LET key == <<flight[p].id, flight[p].window>>
        prev_key == <<flight[p].id, flight[p].prev>>
        ev == IF impl = "SlidingWindow"
              THEN SlidingWindow_SCRIPT(counters, key, prev_key, MaxRequests,
                                        flight[p].now, window_ms, 1)
              ELSE SlidingWindowCore_script(counters, key, prev_key, MaxRequests,
                                            flight[p].now, window_ms)
    IN /\ impl \in SlidingWindows
       /\ flight[p].pc = "sent"
       /\ counters' = ev.store
       /\ flight' = [flight EXCEPT ![p] =
                        [@ EXCEPT !.pc = "returned", !.ret = ev.ret,
                                  !.allowed = ev.ret >= 0,
                                  !.reset = IF impl = "SlidingWindow"
                                            THEN ms_to_s((flight[p].window + 1) * window_ms)
                                            ELSE SlidingWindowCore_limit(ev.ret).reset,
                                  !.cmds = 1]]
       /\ UNCHANGED <<clock, impl, buckets, resp, last, calls, bur, answer, made, conv, seen, twin>>

NextReadings ==
    \/ Tick
    \/ \E p \in Procs, identifier \in Ids : CurrentKey(p, identifier)
    \/ \E p \in Procs : PreviousKey(p)
    \/ \E p \in Procs : NowArgument(p)
    \/ \E p \in Procs : Eval(p)
    \/ \E p \in Procs, identifier \in Ids : (impl \in FixedWindows /\ NoneCalling /\ Send(p, identifier))
    \/ \E p \in Procs : (impl \in FixedWindows /\ Exec(p))

SpecReadings == InitReadings /\ [][NextReadings]_vars

\* the window the time sent to the script lies in
WindowOfNow(p) ==
    IF impl = "SlidingWindow"
    THEN flight[p].now \div window_ms
    ELSE flight[p].now \div MsFloat(window_ms)

\* the keys, the time and the reset of the call of p are those of one instant
OneReading(p) ==
    /\ impl \in SlidingWindows => flight[p].prev = flight[p].window - 1
    /\ impl \in SlidingWindows => WindowOfNow(p) = flight[p].window
    /\ ResetTicks(flight[p]) = MsFloat((flight[p].window + 1) * window_ms)

\* C40: within one limit call the keys, the now argument and the reset derive from one
\* clock reading: the previous key is of the window before the current key's, now
\* lies in the current key's window, and reset is the end of the window charged, even
\* when time crosses a window boundary during the call.
C40_OneClockReading == \A p \in Procs : flight[p].pc = "returned" => OneReading(p)

\* C40 but for the previous key: the now argument lies in the window of the current
\* key, and reset is the end of that window
C40_TimeOfKey ==
    \A p \in Procs :
        flight[p].pc = "returned"
            => /\ impl \in SlidingWindows => WindowOfNow(p) = flight[p].window
               /\ ResetTicks(flight[p]) = MsFloat((flight[p].window + 1) * window_ms)

\* C40 for the limiters of limiter.py alone
C40_NewOneReading == impl \in NewImpls => C40_OneClockReading

\* a call of limiter.py returned in the window after the one it was sent in
C40_NewWitness ==
    /\ impl = "SlidingWindow"
    /\ \E p \in Procs : /\ flight[p].pc = "returned"
                        /\ flight[p].allowed
                        /\ flight[p].window < WindowNow

====
